---- MODULE Spec2Model ----
(***************************************************************************)
(* configchecker: the rolling window, the scorer and the ranker of        *)
(* configchecker/monitor.py (class RollingStats and the tick loop of      *)
(* start_monitor).                                                         *)
(*                                                                         *)
(* Numbers.  The program computes loss, latency, jitter and scores as     *)
(* Python floats.  The model computes the same expressions over exact     *)
(* non-negative rationals, so that comparisons and equalities are those   *)
(* of the formulas in the source and not of a rounding.  A rational is a  *)
(* record [i, n, d] denoting i + n/d with 0 <= n < d and gcd(n, d) = 1    *)
(* (d = 1 when n = 0); the integer part is kept apart so that every       *)
(* intermediate product stays far below 2^31.  Latencies are whole        *)
(* milliseconds and the clock (time.time()) counts whole seconds.         *)
(*                                                                         *)
(* Steps.  The program runs on one asyncio thread: add() and the tick's   *)
(* scoring-and-sort run without an await inside, so each is one atomic    *)
(* action here.  Twelve specifications share the state:                  *)
(*   SpecWin  one window of every small capacity, fed by add();           *)
(*   Spec     three windows scored and ranked by the tick while the probe *)
(*            loops add outcomes and the clock passes the dead threshold; *)
(*   SpecDom  windows of the default capacity 100, drawn as a probe loop  *)
(*            fills them, then ranked.                                    *)
(*   SpecLoops the probe loops of real_delay_pinger under the shared      *)
(*            semaphore, and the shutdown of start_monitor's finally;     *)
(*   SpecTick the tick loop of start_monitor over eleven pre-populated    *)
(*            windows, with its automatic selection, while two of the     *)
(*            probe loops run;                                            *)
(*   SpecStart start_monitor from its call: Phase 1 (verify_all_configs   *)
(*            and the verify_config calls it gathers), then the first     *)
(*            steps of the monitor over the verified configs;             *)
(*   SpecLinks the monitor over a config list in which two configs may    *)
(*            carry the same raw_link;                                    *)
(*   SpecParse ConfigParser.parse_file over small files of share links;   *)
(*   SpecQuick the quick mode of cli.async_main with its two gathers of   *)
(*            TCP checks;                                                 *)
(*   SpecTop  start_monitor from the result of Phase 1 when about thirty  *)
(*            configs are verified: the cut to MAX_MONITORED, then the    *)
(*            tick loop;                                                  *)
(*   SpecWait the probe loops with more targets than slots, from the      *)
(*            moment every slot is taken, the monitor running on;         *)
(*   SpecVerify concurrent verify_config calls, statement by statement:   *)
(*            the local port, the temp config file, the process and the   *)
(*            finally block.                                              *)
(***************************************************************************)
EXTENDS Integers, Sequences, FiniteSets, TLC

\* ------------------------------------------------------------------------
\* Program constants
\* ------------------------------------------------------------------------
DefaultMaxlen == 100
DeadThreshold == 600
DeadOffset == 9999999
WarmupThreshold == 2
WarmupOffset == 999999
LossWeight == 10000
JitterWeight == 5
LatencyDivisor == 2
AlphaDivisor == 20
ProbeTimeoutMs == 5000
SemCapacity == 5
SleepSeconds == 5
PrepopDefault == 100
LowLossLimit == 50
GracePeriod == 60
Phase1Concurrency == 10
MaxMonitored == 30
BandBoundary == 900000

\* ------------------------------------------------------------------------
\* Bounds of the model
\*   WinCap     capacity of the windows of the scoring model (it stands for
\*              the default capacity, which Spec cannot enumerate)
\*   MaxEvents  probe outcomes, clock steps and ticks of one behaviour of
\*              the scoring model
\*   DomRanks   ticks of one behaviour of the default-capacity model
\*   WinMaxCap  largest capacity of the window model
\*   WinAdds    add() calls of one behaviour of the window model
\*   NLoops     number of monitored configs of the probe-loop model (one
\*              more than the semaphore has slots)
\*   MaxLoopWork loop steps and clock steps of one behaviour of the
\*              probe-loop model before shutdown
\*   NMonitored number of monitored configs of the tick model (one more
\*              than the hysteresis band, so that a rank can leave the band)
\*   MaxTickWork loop steps, clock steps and ticks of one behaviour of the
\*              tick model
\*   NConfigs   largest number of configs loaded in the start model
\*   MaxStartWork loop steps, clock steps and ticks of the monitor in one
\*              behaviour of the start model
\*   MaxLines   largest number of lines of the file of the parser model
\*   MaxConcurrency largest --concurrency of the quick-mode model
\* ------------------------------------------------------------------------
WinCap == 2
MaxEvents == 6
DomRanks == 2
WinMaxCap == 3
WinAdds == 5
NLoops == 6
MaxLoopWork == 7
NMonitored == 11
MaxTickWork == 7
NConfigs == 2
MaxStartWork == 3
MaxLines == 2
MaxConcurrency == 2

\* the monitored configs, in stats_map insertion order
Order == <<"A", "B", "C">>
Targets == {Order[i] : i \in 1..Len(Order)}
\* the configs Phase 1 can hand to the monitor, in Phase-1 order
ConfigNames == <<"A", "B", "C", "D", "E", "F", "G", "H", "I", "J", "K", "L",
                 "M", "N">>
First(n) == {ConfigNames[i] : i \in 1..n}
\* recommended_config = None
NoConfig == "None"
\* the targets whose loops deliver samples; "C" stays a zero-sample target
Probed == {"A", "B"}
\* latencies (ms) the probes of the scoring model report: a fast answer and
\* the slowest one the probe timeout allows
ScoreLats == {50, ProbeTimeoutMs}
\* latencies (ms) the probes of the window model report
WinLats == {100, 110, 120}

\* Python's None for smoothed_score, kept as a record of the shape of a
\* rational (TLC compares records with records); no score is negative
None == [i |-> -1, n |-> 0, d |-> 1]

\* ------------------------------------------------------------------------
\* Exact arithmetic on non-negative rationals
\* ------------------------------------------------------------------------
RECURSIVE GCD(_, _)
GCD(a, b) == IF b = 0 THEN a ELSE GCD(b, a % b)

\* a/b for a >= 0, b > 0
QFrac(a, b) ==
    LET r == a % b
        g == GCD(b, r)
    IN  [i |-> a \div b, n |-> r \div g, d |-> b \div g]

QInt(k) == [i |-> k, n |-> 0, d |-> 1]

QAdd(x, y) ==
    LET g == GCD(x.d, y.d)
        L == (x.d \div g) * y.d
        s == x.n * (L \div x.d) + y.n * (L \div y.d)
        f == QFrac(s, L)
    IN  [i |-> x.i + y.i + f.i, n |-> f.n, d |-> f.d]

\* x * k for an integer k >= 0
QMulInt(x, k) ==
    LET f == QFrac(k * x.n, x.d)
    IN  [i |-> k * x.i + f.i, n |-> f.n, d |-> f.d]

\* x / m for an integer m > 0
QDivInt(x, m) ==
    LET f == QFrac((x.i % m) * x.d + x.n, m * x.d)
    IN  [i |-> (x.i \div m) + f.i, n |-> f.n, d |-> f.d]

\* a/b < c/d for a, c >= 0 and b, d > 0, by the continued-fraction expansion
RECURSIVE FracLess(_, _, _, _)
FracLess(a, b, c, d) ==
    LET q1 == a \div b
        q2 == c \div d
        r1 == a % b
        r2 == c % d
    IN  IF q1 # q2 THEN q1 < q2
        ELSE IF r2 = 0 THEN FALSE
        ELSE IF r1 = 0 THEN TRUE
        ELSE FracLess(d, r2, b, r1)

QLess(x, y) == x.i < y.i \/ (x.i = y.i /\ FracLess(x.n, x.d, y.n, y.d))
QLeq(x, y) == ~QLess(y, x)

\* the sum of a sequence of integers, by halves
RECURSIVE SumSeq(_)
SumSeq(s) ==
    IF s = <<>> THEN 0
    ELSE IF Len(s) = 1 THEN s[1]
    ELSE LET h == Len(s) \div 2
         IN  SumSeq(SubSeq(s, 1, h)) + SumSeq(SubSeq(s, h + 1, Len(s)))

Abs(x) == IF x < 0 THEN -x ELSE x
Min(a, b) == IF a < b THEN a ELSE b
Max(a, b) == IF a > b THEN a ELSE b

\* ------------------------------------------------------------------------
\* State
\* ------------------------------------------------------------------------
VARIABLES
    now,                \* time.time(), in seconds since the windows were built
    maxlen,             \* per target: deque(maxlen=...) of RollingStats.history
    history,            \* per target: RollingStats.history, oldest first
    smoothed_score,     \* per target: RollingStats.smoothed_score, or None
    last_success_time,  \* per target: RollingStats.last_success_time
    current_snapshots,  \* the ranked snapshot of the tick that has just run;
                        \* <<>> once the tick loop sleeps and a probe loop or
                        \* the clock has moved (the next tick rebuilds it)
    arrivals,           \* per target: every sample ever passed to add(), in order
    nranks,             \* number of rankings computed so far
    pc,                 \* per target: where its real_delay_pinger task stands
                        \*   "created"  create_task() has scheduled its first
                        \*              step
                        \*   "ready"    its sleep is over: runs the loop head
                        \*              when the event loop picks it
                        \*   "waiting"  suspended in sem.acquire()
                        \*   "probing"  holds a slot, inside verify_config
                        \*   "sleeping" in asyncio.sleep(5)
                        \*   "done"     the task has finished
    sem_value,          \* free slots of sem (asyncio.Semaphore._value, plus
                        \* the slots release() has passed to a waiter that
                        \* has not resumed yet)
    waiters,            \* the targets suspended in sem.acquire(), in the
                        \* order of their arrival (Semaphore._waiters)
    running,            \* start_monitor.running
    monitor,            \* where start_monitor stands: "ticking" in the tick
                        \* loop, "draining" in the gather of its finally
                        \* block, "returned"
    cancel_requested,   \* tasks whose cancel() has not been delivered yet
    manual_mode,        \* start_monitor.manual_mode
    recommended_config, \* start_monitor.recommended_config, or NoConfig
    cached_snapshots,   \* start_monitor.cached_snapshots: the configs of the
                        \* dashboard's ranking, best first
    selected_config,    \* start_monitor.selected_config, or NoConfig
    trigger_rescan,     \* start_monitor.trigger_rescan
    probe_started_at,   \* per target: time of the latest verify_config call of
                        \* its loop, -1 before the first
    last_outcome,       \* per target: how that call ended: "result" (it
                        \* returned), "raised", "cancelled"; "none" before
                        \* the first call and while the call is under way
    lines,              \* parse_file: the lines of the file not yet read
    configs,            \* the configs loaded: the list parse_file builds, the
                        \* argument of start_monitor and of the quick scan
    raw_link,           \* per config: its raw_link, the key of its window
                        \* in stats_map
    xray_available,     \* what XrayVerifier.ensure_xray() returns
    reachable,          \* the configs whose server answers
    concurrency,        \* the capacity the semaphore of a gather is built with
    tasks,              \* per config: where its coroutine of the gather
                        \* stands: "created", "waiting" in sem.acquire(),
                        \* "running" its call, "done", "raised"
    sem,                \* free slots of the semaphore of the gather
    results,            \* per config: what its coroutine returned, or NoResult
    valid_results,      \* what verify_all_configs returns to start_monitor
    calls,              \* per config: the calls made on it so far
    fault,              \* per config: what its latest verify_config call met
    verify,             \* per config: its verify_config call, statement by
                        \* statement: at ("idle", "starting" in the sleep
                        \* after Popen, "requesting"), its local_port, its
                        \* process ("none", "running", "exited",
                        \* "terminated", "killed"), and whether it has
                        \* written its temp config file
    temp_files          \* the local ports p whose temp_config_p.json exists

statVars == <<now, maxlen, history, smoothed_score, last_success_time,
              current_snapshots, arrivals, nranks>>
taskVars == <<pc, sem_value, waiters, probe_started_at, last_outcome>>
tickVars == <<manual_mode, recommended_config, cached_snapshots,
              selected_config, trigger_rescan>>
exitVars == <<running, monitor, cancel_requested>>
monVars == <<taskVars, tickVars, exitVars>>
loadVars == <<lines, configs, raw_link>>
worldVars == <<xray_available, reachable>>
gatherVars == <<concurrency, tasks, sem, results, valid_results, calls, fault>>
verifyVars == <<verify, temp_files>>
startVars == <<loadVars, worldVars, gatherVars, verifyVars>>
vars == <<statVars, monVars, startVars>>

Fail == [up |-> FALSE, lat |-> 0]
Ok(l) == [up |-> TRUE, lat |-> l]
Samples(lats) == {Fail} \cup {Ok(l) : l \in lats}

\* ------------------------------------------------------------------------
\* RollingStats
\* ------------------------------------------------------------------------
\* deque(maxlen=cap).append(s): a full deque drops its oldest entry first
DequeAppendEvictNewest(h, cap, s) ==
    IF cap = 0 THEN h
    ELSE IF Len(h) >= cap THEN Append(SubSeq(h, 1, Len(h) - 1), s)
    ELSE Append(h, s)

DequeAppend(h, cap, s) ==
    IF cap = 0 THEN h
    ELSE IF Len(h) >= cap THEN Append(Tail(h), s)
    ELSE Append(h, s)

\* failures = sum(1 for up, _ in self.history if not up)
FailuresCountsUp(h) == Cardinality({k \in DOMAIN h : h[k].up})

Failures(h) == Cardinality({k \in DOMAIN h : ~h[k].up})

\* loss = (failures / total) * 100
LossPct(h) == QFrac(Failures(h) * 100, Len(h))

\* valid_latencies = [lat for up, lat in self.history if up]
IsUp(s) == s.up
ValidLatenciesUnfiltered(h) == [k \in 1..Len(h) |-> h[k].lat]

ValidLatencies(h) ==
    LET ups == SelectSeq(h, IsUp)
    IN  [k \in 1..Len(ups) |-> ups[k].lat]

\* statistics.mean
Mean(v) == QFrac(SumSeq(v), Len(v))

\* diffs = [abs(v[i] - v[i-1]) for i in range(1, len(v))]
Diffs(v) == [k \in 1..(Len(v) - 1) |-> Abs(v[k + 1] - v[k])]

\* jitter = statistics.mean(diffs) if diffs else 0.0
Jitter(v) == IF Diffs(v) = <<>> THEN QInt(0) ELSE Mean(Diffs(v))

\* the number of successes below which latency and jitter are reported as 0
MinValid == 2

get_metrics(h) ==
    IF h = <<>>
    THEN [loss |-> QInt(0), lat |-> QInt(0), jitter |-> QInt(0), count |-> 0]
    ELSE LET v == ValidLatencies(h)
         IN  IF Len(v) < MinValid
             THEN [loss |-> LossPct(h), lat |-> QInt(0), jitter |-> QInt(0),
                   count |-> Len(h)]
             ELSE [loss |-> LossPct(h), lat |-> Mean(v), jitter |-> Jitter(v),
                   count |-> Len(h)]

\* time_since_success > 600
IsDeadNever(tss) == FALSE

IsDead(tss) == tss > DeadThreshold

\* 9999999 + time_since_success
DeadScoreFlat(tss) == QInt(DeadOffset)

DeadScore(tss) == QInt(DeadOffset + tss)

\* raw_score = (loss * 10000) + (jitter * 5) + (lat * 0.5)
RawScore(loss, jitter, lat) ==
    QAdd(QAdd(QMulInt(loss, LossWeight), QMulInt(jitter, JitterWeight)),
         QDivInt(lat, LatencyDivisor))

\* 999999 + raw_score
WarmupScore(raw) == QAdd(QInt(WarmupOffset), raw)

\* (0.05 * raw_score) + (0.95 * self.smoothed_score)
EmaTenth(raw, prev) == QDivInt(QAdd(raw, QMulInt(prev, 9)), 10)

Ema(raw, prev) ==
    QDivInt(QAdd(raw, QMulInt(prev, AlphaDivisor - 1)), AlphaDivisor)

\* the smoothing of an established target: seeded by the first raw score
Smooth(ss, raw) == IF ss = None THEN raw ELSE Ema(raw, ss)

\* get_score() of a window h with smoothed score ss and last success at lst,
\* called at time t.  "smoothed" is self.smoothed_score after the call.
get_score(h, ss, lst, t) ==
    LET m == get_metrics(h)
        tss == t - lst
        raw == RawScore(m.loss, m.jitter, m.lat)
    IN  IF IsDead(tss)
        THEN [score |-> DeadScore(tss), loss |-> QInt(100), lat |-> m.lat,
              jitter |-> m.jitter, count |-> m.count, smoothed |-> ss]
        ELSE IF m.count < WarmupThreshold
        THEN [score |-> WarmupScore(raw), loss |-> m.loss, lat |-> m.lat,
              jitter |-> m.jitter, count |-> m.count, smoothed |-> ss]
        ELSE [score |-> Smooth(ss, raw), loss |-> m.loss, lat |-> m.lat,
              jitter |-> m.jitter, count |-> m.count,
              smoothed |-> Smooth(ss, raw)]

\* ------------------------------------------------------------------------
\* Ranker: the tick loop's snapshot and sort
\* ------------------------------------------------------------------------
ScoreOf(t) == get_score(history[t], smoothed_score[t], last_success_time[t], now)

\* (*stat.get_score(), stat.config)
SnapshotOf(t) ==
    LET r == ScoreOf(t)
    IN  [score |-> r.score, loss |-> r.loss, lat |-> r.lat,
         jitter |-> r.jitter, count |-> r.count, config |-> t]

\* list.sort(key=lambda x: x[0]): ascending, equal keys keep their order
RECURSIVE InsertBeforeEqual(_, _)
InsertBeforeEqual(x, s) ==
    IF s = <<>> THEN <<x>>
    ELSE IF ~QLess(Head(s).score, x.score) THEN <<x>> \o s
    ELSE <<Head(s)>> \o InsertBeforeEqual(x, Tail(s))

RECURSIVE InsertByScore(_, _)
InsertByScore(x, s) ==
    IF s = <<>> THEN <<x>>
    ELSE IF QLess(x.score, Head(s).score) THEN <<x>> \o s
    ELSE <<Head(s)>> \o InsertByScore(x, Tail(s))

SortByScoreKeepsOrder(s) == s

RECURSIVE SortByScore(_)
SortByScore(s) ==
    IF s = <<>> THEN <<>>
    ELSE InsertByScore(s[Len(s)], SortByScore(SubSeq(s, 1, Len(s) - 1)))

\* ------------------------------------------------------------------------
\* Operations
\* ------------------------------------------------------------------------
AddKeepsTime(t, s) ==
    /\ history' = [history EXCEPT ![t] = DequeAppend(@, maxlen[t], s)]
    /\ arrivals' = [arrivals EXCEPT ![t] = Append(@, s)]
    /\ current_snapshots' = <<>>
    /\ UNCHANGED <<now, maxlen, smoothed_score, nranks, last_success_time>>

\* RollingStats.add(is_up, latency) on the window of target t
Add(t, s) ==
    /\ history' = [history EXCEPT ![t] = DequeAppend(@, maxlen[t], s)]
    /\ last_success_time' =
         [last_success_time EXCEPT ![t] = IF s.up THEN now ELSE @]
    /\ arrivals' = [arrivals EXCEPT ![t] = Append(@, s)]
    /\ current_snapshots' = <<>>
    /\ UNCHANGED <<now, maxlen, smoothed_score, nranks>>

\* the clock moves on by dt seconds
Advance(dt) ==
    /\ now' = now + dt
    /\ current_snapshots' = <<>>
    /\ UNCHANGED <<maxlen, history, smoothed_score, last_success_time,
                   arrivals, nranks>>

\* one tick: get_score() of every stat in stats_map order, then the sort
Rank ==
    /\ smoothed_score' = [t \in Targets |-> ScoreOf(t).smoothed]
    /\ current_snapshots' =
         SortByScore([k \in 1..Len(Order) |-> SnapshotOf(Order[k])])
    /\ nranks' = nranks + 1
    /\ UNCHANGED <<now, maxlen, history, last_success_time, arrivals>>

\* the load and Phase 1 are over and have left nothing under way: the
\* verifier is available, the slots of its gather are free
NoVerify ==
    /\ verify = <<>>
    /\ temp_files = {}
NoGather ==
    /\ NoVerify
    /\ tasks = <<>>
    /\ sem = 0
    /\ results = <<>>
    /\ valid_results = <<>>
LoadOver ==
    /\ lines = <<>>
    /\ configs = <<>>
    /\ xray_available = TRUE
    /\ reachable = {}
    /\ concurrency = 0
    /\ NoGather
    /\ calls = <<>>
    /\ fault = <<>>

\* start_monitor has built nothing yet: no window, no pinger task
NoMonitor ==
    /\ now = 0
    /\ maxlen = <<>>
    /\ history = <<>>
    /\ smoothed_score = <<>>
    /\ last_success_time = <<>>
    /\ current_snapshots = <<>>
    /\ arrivals = <<>>
    /\ nranks = 0
    /\ pc = <<>>
    /\ sem_value = SemCapacity
    /\ waiters = <<>>
    /\ probe_started_at = <<>>
    /\ last_outcome = <<>>
    /\ running = TRUE
    /\ cancel_requested = {}
    /\ manual_mode = FALSE
    /\ selected_config = NoConfig
    /\ trigger_rescan = FALSE
    /\ recommended_config = NoConfig
    /\ cached_snapshots = <<>>

\* the state of start_monitor once the pinger tasks are created (none has
\* run yet) and the dashboard has been rendered over the ranking shown
TasksCreated(monitored, shown) ==
    /\ pc = [t \in monitored |-> "created"]
    /\ sem_value = SemCapacity
    /\ waiters = <<>>
    /\ probe_started_at = [t \in monitored |-> -1]
    /\ last_outcome = [t \in monitored |-> "none"]
    /\ raw_link = [t \in monitored |-> t]
    /\ running = TRUE
    /\ monitor = "ticking"
    /\ cancel_requested = {}
    /\ manual_mode = FALSE
    /\ selected_config = NoConfig
    /\ trigger_rescan = FALSE
    /\ recommended_config = NoConfig
    /\ cached_snapshots = shown
    /\ LoadOver

\* ------------------------------------------------------------------------
\* Specification of the scorer and the ranker: windows of capacity WinCap,
\* built at time 0, fed by the loops of the probed targets.
\* ------------------------------------------------------------------------
Init ==
    /\ now = 0
    /\ maxlen = [t \in Targets |-> WinCap]
    /\ history = [t \in Targets |-> <<>>]
    /\ smoothed_score = [t \in Targets |-> None]
    /\ last_success_time = [t \in Targets |-> 0]
    /\ current_snapshots = <<>>
    /\ arrivals = [t \in Targets |-> <<>>]
    /\ nranks = 0
    /\ TasksCreated(Targets, <<>>)

\* the clock moves in steps of the dead threshold or one second more, so
\* that a window is seen both exactly at the threshold and beyond it
ClockSteps == {DeadThreshold, DeadThreshold + 1}
\* the number of clock steps taken so far (each is 600 or 601 s long)
ClockStepsTaken == (now + DeadThreshold) \div (DeadThreshold + 1)
TotalAdds == SumSeq([k \in 1..Len(Order) |-> Len(arrivals[Order[k]])])
\* the probe outcomes delivered, the clock steps and the ticks so far
Events == TotalAdds + ClockStepsTaken + nranks

AddSample ==
    \E t \in Probed, s \in Samples(ScoreLats) :
        /\ Events < MaxEvents
        /\ Add(t, s)
        /\ UNCHANGED <<monVars, startVars>>

Tick ==
    /\ Events < MaxEvents
    /\ Rank
    /\ UNCHANGED <<monVars, startVars>>

ClockStep ==
    \E dt \in ClockSteps :
        /\ Events < MaxEvents
        /\ Advance(dt)
        /\ UNCHANGED <<monVars, startVars>>

Next == AddSample \/ Tick \/ ClockStep

Spec == Init /\ [][Next]_vars

\* ------------------------------------------------------------------------
\* Specification of one window: every capacity up to WinMaxCap, no clock.
\* ------------------------------------------------------------------------
InitWin ==
    /\ now = 0
    /\ maxlen \in {f \in [Targets -> 0..WinMaxCap] :
                     \A t \in Targets \ {"A"} : f[t] = WinCap}
    /\ history = [t \in Targets |-> <<>>]
    /\ smoothed_score = [t \in Targets |-> None]
    /\ last_success_time = [t \in Targets |-> 0]
    /\ current_snapshots = <<>>
    /\ arrivals = [t \in Targets |-> <<>>]
    /\ nranks = 0
    /\ TasksCreated(Targets, <<>>)

AddWin ==
    \E s \in Samples(WinLats) :
        /\ Len(arrivals["A"]) < WinAdds
        /\ Add("A", s)
        /\ UNCHANGED <<monVars, startVars>>

NextWin == AddWin

SpecWin == InitWin /\ [][NextWin]_vars

\* ------------------------------------------------------------------------
\* Specification of the raw score over windows of the default capacity: the
\* windows are drawn as a probe loop can have filled them (f failures, then
\* successes whose latencies alternate between two values), then ranked.
\* ------------------------------------------------------------------------
DomLats == {10, ProbeTimeoutMs - 1000}
DomLens == {WarmupThreshold, DefaultMaxlen}
DomFails == {0, 1}

Filled(n, f, l1, l2) ==
    [k \in 1..n |-> IF k <= f THEN Fail
                    ELSE IF (k - f) % 2 = 1 THEN Ok(l1) ELSE Ok(l2)]

DomWindows ==
    {Filled(n, f, l1, l2) : n \in DomLens, f \in DomFails,
                            l1 \in DomLats, l2 \in DomLats}

InitDom ==
    /\ now = 0
    /\ maxlen = [t \in Targets |-> DefaultMaxlen]
    /\ history \in {h \in [Targets -> DomWindows \cup {<<>>}] :
                      \A t \in Targets : h[t] = <<>> <=> t \notin Probed}
    /\ arrivals = history
    /\ smoothed_score = [t \in Targets |-> None]
    /\ last_success_time = [t \in Targets |-> 0]
    /\ current_snapshots = <<>>
    /\ nranks = 0
    /\ TasksCreated(Targets, <<>>)

TickDom ==
    /\ nranks < DomRanks
    /\ Rank
    /\ UNCHANGED <<monVars, startVars>>

NextDom == TickDom

SpecDom == InitDom /\ [][NextDom]_vars

\* ------------------------------------------------------------------------
\* The monitor (Phase 2 of start_monitor): one real_delay_pinger task per
\* monitored config, the semaphore they share, the tick loop and the finally
\* block that drains the tasks.  Every action runs from one await to the
\* next, as the single asyncio thread does.
\* ------------------------------------------------------------------------
\* what the probes of the monitor model report: a failure or a fast answer
MonLats == {50}
\* monitor_start_time = time.time(), taken as the windows are built
monitor_start_time == 0
\* the keys of stats_map, and stats_map.values() in insertion order
Monitored == DOMAIN history
InStats(t) == t \in Monitored
\* monitored_configs are the verified configs in the order Phase 1 returned
\* them; a monitor taken up after Phase 1 names its configs in that order
\* (verify_all_configs returned None: all loaded configs, in file order)
NoneReturned == <<[config |-> NoConfig, lat |-> 0]>>
VerifiedOrder ==
    IF valid_results \in {<<>>, NoneReturned} THEN ConfigNames
    ELSE [k \in 1..Len(valid_results) |-> valid_results[k].config]
StatsOrder == SelectSeq(VerifiedOrder, InStats)
\* stat.add(False, 0) of the except branch of the loop
CaughtAsSuccess == Ok(0)
CaughtSample == Fail

\* the task of t passes from one await to the next
\* a task that suspends in sem.acquire() joins the waiters, a task that
\* leaves it (granted or cancelled) is removed from them
Goto(t, label) ==
    /\ pc' = [pc EXCEPT ![t] = label]
    /\ waiters' = IF label = "waiting" THEN Append(waiters, t)
                  ELSE IF pc[t] # "waiting" THEN waiters
                  ELSE SelectSeq(waiters, LAMBDA u : u # t)

\* verify_config is entered with a slot held
EnterProbe(t) ==
    /\ sem_value' = sem_value - 1
    /\ probe_started_at' = [probe_started_at EXCEPT ![t] = now]
    /\ last_outcome' = [last_outcome EXCEPT ![t] = "none"]
    /\ Goto(t, "probing")

\* the event loop runs what is scheduled in the order it was scheduled: the
\* first steps of the tasks in the order of create_task(), and the tasks
\* that the finally block sent to sleep in the order of their cancel()
OrderIndex(t) ==
    LET order == VerifiedOrder
    IN  CHOOSE k \in 1..Len(order) : order[k] = t
Before(t) == {u \in DOMAIN pc : OrderIndex(u) < OrderIndex(t)}
\* the task of S that comes first in that order
Earliest(S) ==
    LET order == VerifiedOrder
    IN  order[CHOOSE k \in 1..Len(order) :
                 order[k] \in S /\ \A j \in 1..(k - 1) : order[j] \notin S]
RunsNext(t) ==
    /\ pc[t] = "created" => t = Earliest({u \in DOMAIN pc : pc[u] = "created"})
    /\ (pc[t] = "ready" /\ ~running) =>
            t = Earliest({u \in DOMAIN pc : pc[u] = "ready"})

\* a loop head that takes a free slot past the tasks waiting for one
IterateBarges(t) ==
    /\ pc[t] \in {"created", "ready"}
    /\ RunsNext(t)
    /\ monitor # "returned"
    /\ t \notin cancel_requested
    /\ IF ~running
       THEN /\ Goto(t, "done")
            /\ UNCHANGED <<sem_value, probe_started_at, last_outcome>>
       ELSE IF sem_value > 0
            THEN EnterProbe(t)
            ELSE /\ Goto(t, "waiting")
                 /\ UNCHANGED <<sem_value, probe_started_at, last_outcome>>
    /\ UNCHANGED <<statVars, tickVars, exitVars>>

\* the task of t runs the loop head, "while running" and "async with sem",
\* after its creation or after its sleep
Iterate(t) ==
    /\ pc[t] \in {"created", "ready"}
    /\ RunsNext(t)
    /\ monitor # "returned"
    /\ t \notin cancel_requested
    /\ IF ~running
       THEN /\ Goto(t, "done")
            /\ UNCHANGED <<sem_value, probe_started_at, last_outcome>>
       ELSE IF sem_value > 0 /\ waiters = <<>>
            THEN EnterProbe(t)
            ELSE /\ Goto(t, "waiting")
                 /\ UNCHANGED <<sem_value, probe_started_at, last_outcome>>
    /\ UNCHANGED <<statVars, tickVars, exitVars>>

GrantAnyway(t) ==
    /\ pc[t] = "waiting"
    /\ t \notin cancel_requested
    /\ EnterProbe(t)
    /\ UNCHANGED <<statVars, tickVars, exitVars>>
\* a released slot goes to a task suspended in sem.acquire()
Grant(t) ==
    /\ pc[t] = "waiting"
    /\ t = Head(waiters)
    /\ t \notin cancel_requested
    /\ sem_value > 0
    /\ EnterProbe(t)
    /\ UNCHANGED <<statVars, tickVars, exitVars>>

\* the call of verify_config made by the loop of t ends
Ends(t, how) == last_outcome' = [last_outcome EXCEPT ![t] = how]

\* the slot is released when the "async with sem" block is left
ReleaseNever == sem_value' = sem_value
Release == sem_value' = sem_value + 1

\* verify_config returns (is_valid, latency): the slot is released, the
\* outcome is added to the window, the loop sleeps
ProbeReturn(t, s) ==
    /\ pc[t] = "probing"
    /\ t \notin cancel_requested
    /\ Release
    /\ Add(raw_link[t], s)
    /\ Ends(t, "result")
    /\ Goto(t, "sleeping")
    /\ UNCHANGED <<probe_started_at, tickVars, exitVars>>

ProbeEscapes(t) ==
    /\ pc[t] = "probing"
    /\ t \notin cancel_requested
    /\ Release
    /\ Ends(t, "raised")
    /\ Goto(t, "done")
    /\ monitor' = "raised"
    /\ UNCHANGED <<statVars, probe_started_at, tickVars, running,
                   cancel_requested>>

\* verify_config raises an Exception: the slot is released, the except
\* branch adds a failed sample, the loop sleeps
ProbeRaise(t) ==
    /\ pc[t] = "probing"
    /\ t \notin cancel_requested
    /\ Release
    /\ Add(raw_link[t], CaughtSample)
    /\ Ends(t, "raised")
    /\ Goto(t, "sleeping")
    /\ UNCHANGED <<probe_started_at, tickVars, exitVars>>

\* time.time() moves on by dt >= 5 s: every asyncio.sleep(5) under way is over
Elapse(dt) ==
    /\ monitor # "returned"
    /\ now' = now + dt
    /\ current_snapshots' = <<>>
    /\ pc' = [t \in DOMAIN pc |-> IF pc[t] = "sleeping" THEN "ready" ELSE pc[t]]
    /\ UNCHANGED <<maxlen, history, smoothed_score, last_success_time,
                   arrivals, nranks>>
    /\ UNCHANGED <<sem_value, waiters, probe_started_at, last_outcome,
                   tickVars, exitVars>>

\* the key handling of one tick: up and down switch to manual mode, Esc
\* switches back
KeyMode(key) ==
    IF key \in {"up", "down"} THEN TRUE
    ELSE IF key = "esc" THEN FALSE
    ELSE manual_mode

\* the auto-selection of the tick: the first snapshot with loss < 50, or the
\* first snapshot
LowLoss(snap) == QLess(snap.loss, QInt(LowLossLimit))
BestCandidates(snaps) == SelectSeq(snaps, LowLoss)
SelectTop(snaps) == snaps[1].config
AutoSelect(snaps) ==
    IF BestCandidates(snaps) # <<>> THEN BestCandidates(snaps)[1].config
    ELSE snaps[1].config

\* get_score() of generate_dashboard: the second call of the tick, made on
\* the state the first call has left
DashScoreOf(t) ==
    get_score(history[t], ScoreOf(t).smoothed, last_success_time[t], now)
DashSnapshotOf(t) ==
    LET r == DashScoreOf(t)
    IN  [score |-> r.score, loss |-> r.loss, lat |-> r.lat,
         jitter |-> r.jitter, count |-> r.count, config |-> t]
Configs(snaps) == [k \in 1..Len(snaps) |-> snaps[k].config]

\* what the terminal delivers to one tick, other than q: nothing within
\* the timeout, a letter, an arrow (ESC [ A, ESC [ B), Escape, Enter
Typed == {"", "k", "K", "j", "J", "Up", "Down", "Esc", "Enter", "r", "R", "x"}
\* KeyboardHandler.get_key(timeout=0.05) once the terminal is in raw mode
get_key(ch) ==
    IF ch = "" THEN "none"
    ELSE IF ch = "Up" THEN "up"
    ELSE IF ch = "Down" THEN "down"
    ELSE IF ch = "Esc" THEN "esc"
    ELSE IF ch \in {"k", "K"} THEN "up"
    ELSE IF ch \in {"j", "J"} THEN "down"
    ELSE IF ch = "Enter" THEN "enter"
    ELSE IF ch \in {"q", "Q"} THEN "quit"
    ELSE "none"

\* curr_idx of the key handling, counted from 1: the first row of
\* cached_snapshots that carries the raw_link of the selected config, the
\* first row when there is none
CurrIdx ==
    LET rows == {k \in 1..Len(cached_snapshots) :
                    /\ selected_config # NoConfig
                    /\ raw_link[cached_snapshots[k]] = raw_link[selected_config]}
    IN  IF rows = {} THEN 1 ELSE CHOOSE k \in rows : \A j \in rows : k <= j
\* a key handling whose down moves two rows
KeyJumps(key) ==
    IF key = "up"
    THEN IF cached_snapshots # <<>>
         THEN cached_snapshots[Max(1, CurrIdx - 1)]
         ELSE selected_config
    ELSE IF key = "down"
    THEN IF cached_snapshots # <<>>
         THEN cached_snapshots[Min(Len(cached_snapshots), CurrIdx + 2)]
         ELSE selected_config
    ELSE IF key = "esc" THEN NoConfig
    ELSE selected_config
\* selected_config after the key handling of one tick
KeySelection(key) ==
    IF key = "up"
    THEN IF cached_snapshots # <<>>
         THEN cached_snapshots[Max(1, CurrIdx - 1)]
         ELSE selected_config
    ELSE IF key = "down"
    THEN IF cached_snapshots # <<>>
         THEN cached_snapshots[Min(Len(cached_snapshots), CurrIdx + 1)]
         ELSE selected_config
    ELSE IF key = "esc" THEN NoConfig
    ELSE selected_config

\* the key handling of a pass that stays in the loop
KeyHandled(key) ==
    /\ manual_mode' = KeyMode(key)
    /\ selected_config' = KeySelection(key)

\* one pass of the tick loop that does not leave it: the key handling, the
\* scoring and sort, the auto-selection, the dashboard
\* current_snapshots of the pass: the tick's own scoring and sort
TickRanking ==
    LET order == StatsOrder
    IN  SortByScore([k \in 1..Len(order) |-> SnapshotOf(order[k])])
\* the ranking generate_dashboard computes at the end of the pass
TickDashboard ==
    LET order == StatsOrder
    IN  Configs(SortByScore([k \in 1..Len(order) |->
                               DashSnapshotOf(order[k])]))
\* what one pass computes whatever the key: the two rankings, and the
\* smoothed scores the second get_score() leaves
TickPass ==
    [ranked |-> TickRanking,
     shown |-> TickDashboard,
     smoothed |-> [t \in Monitored |-> DashScoreOf(t).smoothed]]
TickStays(key, pass) ==
    /\ current_snapshots' = pass.ranked
    /\ smoothed_score' = pass.smoothed
    /\ cached_snapshots' = pass.shown
    /\ nranks' = nranks + 2
    /\ KeyHandled(key)
    /\ recommended_config' =
         IF ~manual_mode' /\ current_snapshots' # <<>>
         THEN AutoSelect(current_snapshots')
         ELSE recommended_config
    /\ UNCHANGED <<now, maxlen, history, last_success_time, arrivals>>
    /\ UNCHANGED <<taskVars, exitVars, trigger_rescan>>
\* the tick loop is left (quit key, CancelledError, KeyboardInterrupt) and
\* the finally block runs up to its gather: running = False, and cancel()
\* on every task
Unfinished == {t \in DOMAIN pc : pc[t] # "done"}
CancelAll == Unfinished
ExitPaths == {"quit", "cancelled", "interrupt"}
Shutdown(path) ==
    /\ monitor = "ticking"
    /\ running' = FALSE
    /\ monitor' = "draining"
    /\ cancel_requested' = CancelAll
    /\ UNCHANGED <<statVars, taskVars, tickVars>>

\* the rescan branch of the key handling: trigger_rescan = True,
\* running = False, break; the finally block follows as for quit
TickRescans ==
    /\ trigger_rescan' = TRUE
    /\ running' = FALSE
    /\ monitor' = "draining"
    /\ cancel_requested' = CancelAll
    /\ UNCHANGED <<statVars, taskVars, manual_mode, recommended_config,
                   cached_snapshots, selected_config>>
\* one pass of the tick loop in which get_key returns key
TickKeyed(key, pass) ==
    /\ monitor = "ticking"
    /\ IF key \in {"r", "R"} THEN TickRescans ELSE TickStays(key, pass)
\* one pass of the tick loop with ch typed
TickTyped(ch) == TickKeyed(get_key(ch), TickPass)
MonTick ==
    \E pass \in {TickPass} :
       \E key \in {get_key(ch) : ch \in Typed} : TickKeyed(key, pass)

\* the event loop delivers the cancellations in the order of the cancel()
\* calls, which is the order of pinger_tasks
NextCancelled(t) ==
    /\ t \in cancel_requested
    /\ t = Earliest(cancel_requested)

\* CancelledError is raised in a task that is not inside verify_config (not
\* started, in sem.acquire(), in asyncio.sleep(5)): the outer except ends it
CancelIdle(t) ==
    /\ NextCancelled(t)
    /\ pc[t] \in {"created", "ready", "waiting", "sleeping"}
    /\ cancel_requested' = cancel_requested \ {t}
    /\ Goto(t, "done")
    /\ UNCHANGED <<statVars, sem_value, probe_started_at, last_outcome,
                   tickVars, running, monitor>>

\* CancelledError is raised inside verify_config at a point where it
\* propagates (asyncio.sleep(0.2)): the slot is released, nothing is added,
\* the outer except ends the task
CancelProbe(t) ==
    /\ NextCancelled(t)
    /\ pc[t] = "probing"
    /\ cancel_requested' = cancel_requested \ {t}
    /\ Release
    /\ Ends(t, "cancelled")
    /\ Goto(t, "done")
    /\ UNCHANGED <<statVars, probe_started_at, tickVars, running, monitor>>

\* CancelledError is raised inside the request of verify_config, whose bare
\* except turns it into (False, 0): the loop adds the failure and sleeps
CancelSwallowed(t) ==
    /\ NextCancelled(t)
    /\ pc[t] = "probing"
    /\ cancel_requested' = cancel_requested \ {t}
    /\ Release
    /\ Add(raw_link[t], Fail)
    /\ Ends(t, "result")
    /\ Goto(t, "sleeping")
    /\ UNCHANGED <<probe_started_at, tickVars, running, monitor>>

\* gather(*pinger_tasks) completes and start_monitor returns
AllDone == \A t \in DOMAIN pc : pc[t] = "done"
GatheredAtOnce == TRUE
Gathered == AllDone
Return ==
    /\ monitor = "draining"
    /\ Gathered
    /\ monitor' = "returned"
    /\ UNCHANGED <<statVars, taskVars, tickVars, running, cancel_requested>>
    /\ UNCHANGED startVars

\* ------------------------------------------------------------------------
\* The monitor starts: windows of capacity WinCap over the given configs,
\* each pre-populated with the Phase-1 result, the tasks created and the
\* dashboard rendered once.
\* ------------------------------------------------------------------------
MonitorStarted(monitored) ==
    /\ now = 0
    /\ maxlen = [t \in monitored |-> WinCap]
    /\ history = [t \in monitored |-> <<Ok(PrepopDefault)>>]
    /\ smoothed_score = [t \in monitored |-> None]
    /\ last_success_time = [t \in monitored |-> 0]
    /\ current_snapshots = <<>>
    /\ arrivals = history
    /\ nranks = 0
    /\ TasksCreated(monitored,
                    SelectSeq(ConfigNames, LAMBDA t : t \in monitored))

\* the clock moves by the polling interval or past the dead threshold
MonClockSteps == {SleepSeconds, DeadThreshold + 1}
MonClockStepsTaken ==
    (now \div (DeadThreshold + 1)) + ((now % (DeadThreshold + 1)) \div SleepSeconds)
TaskWork(t) ==
    2 * (Len(arrivals[t]) - 1)
      + (IF pc[t] \in {"waiting", "probing"} THEN 1 ELSE 0)
\* the loop steps, the clock steps and the ticks so far
MonWork ==
    LET order == StatsOrder
    IN  SumSeq([k \in 1..Len(order) |-> TaskWork(order[k])])
          + MonClockStepsTaken + nranks \div 2
Working(max) == monitor = "ticking" /\ MonWork < max

\* a loop takes its next step: the while test, then sem.acquire()
LoopRuns(max, loops) ==
    /\ Working(max)
    /\ \E t \in loops : Iterate(t)
    /\ UNCHANGED startVars
\* a released permit wakes a loop waiting in sem.acquire()
LoopGranted(loops) ==
    /\ monitor = "ticking"
    /\ \E t \in loops : Grant(t)
    /\ UNCHANGED startVars
\* running is False: a loop that reaches its while test ends
LoopStops(loops) ==
    /\ ~running
    /\ \E t \in loops : Iterate(t)
    /\ UNCHANGED startVars
LoopStep(max, loops) ==
    \/ LoopRuns(max, loops)
    \/ LoopGranted(loops)
    \/ LoopStops(loops)

ProbeEnd(max) ==
    /\ Working(max)
    /\ \E t \in DOMAIN pc :
          \/ \E s \in Samples(MonLats) : ProbeReturn(t, s)
          \/ ProbeRaise(t)
    /\ UNCHANGED startVars

\* time passes while the monitor ticks
ClockRuns(max, steps) ==
    /\ Working(max)
    /\ \E dt \in steps : Elapse(dt)
    /\ UNCHANGED startVars
\* time passes while the gather waits for a loop in its asyncio.sleep(5)
ClockDrains ==
    /\ monitor = "draining"
    /\ cancel_requested = {}
    /\ \E t \in Monitored : pc[t] = "sleeping"
    /\ Elapse(SleepSeconds)
    /\ UNCHANGED startVars
MonClock(max, steps) ==
    \/ ClockRuns(max, steps)
    \/ ClockDrains

TickStep(max) ==
    /\ Working(max)
    /\ MonTick
    /\ UNCHANGED startVars

Exit ==
    /\ \E path \in ExitPaths : Shutdown(path)
    /\ UNCHANGED startVars

Cancelled ==
    /\ \E t \in Monitored :
          CancelIdle(t) \/ CancelProbe(t) \/ CancelSwallowed(t)
    /\ UNCHANGED startVars

\* ------------------------------------------------------------------------
\* Specification of the probe loops: NLoops tasks, the semaphore, the clock
\* and the shutdown.
\* ------------------------------------------------------------------------
InitLoops == MonitorStarted(First(NLoops))

NextLoops ==
    \/ LoopStep(MaxLoopWork, Monitored)
    \/ ProbeEnd(MaxLoopWork)
    \/ MonClock(MaxLoopWork, {SleepSeconds})
    \/ Exit
    \/ Cancelled
    \/ Return

SpecLoops == InitLoops /\ [][NextLoops]_vars

\* ------------------------------------------------------------------------
\* Specification of the tick loop: NMonitored configs ranked and one of
\* them recommended by the tick, while the loops of the probed configs
\* deliver outcomes and the clock moves.  The monitor keeps ticking (running
\* stays True) and the two loops never exhaust the five permits, so no loop
\* waits for a permit or stops here.
\* ------------------------------------------------------------------------
InitTick == MonitorStarted(First(NMonitored))

NextTick ==
    \/ LoopRuns(MaxTickWork, Probed)
    \/ ProbeEnd(MaxTickWork)
    \/ ClockRuns(MaxTickWork, MonClockSteps)
    \/ TickStep(MaxTickWork)

SpecTick == InitTick /\ [][NextTick]_vars

\* ------------------------------------------------------------------------
\* XrayVerifier.verify_config and Phase 1 of start_monitor
\*
\* A call of verify_config meets one condition of its environment: the
\* binary is unavailable, one of its steps fails, or nothing fails
\* ("none"); the call is modelled by what each path of the code returns.
\* ------------------------------------------------------------------------
VerifyFaults ==
    {"write_error", "start_error", "crashed", "request_error", "timeout",
     "bad_status"}
\* what a call on config c can meet: without the binary nothing else is
\* tried; a server that does not answer never yields a 204
Conditions(c) ==
    IF ~xray_available THEN {"unavailable"}
    ELSE VerifyFaults \cup (IF c \in reachable THEN {"none"} ELSE {})
VerifyLats == {50, 100}

Returns(valid, latency) == [raised |-> FALSE, valid |-> valid, lat |-> latency]
Propagates == [raised |-> TRUE, valid |-> FALSE, lat |-> 0]
\* verify_config(config, timeout=5), in the order of its statements
verify_config(met, latency) ==
    IF met = "unavailable" THEN Returns(TRUE, 0)
    ELSE IF met = "write_error" THEN Propagates
    ELSE IF met \in {"start_error", "crashed"} THEN Returns(FALSE, 0)
    ELSE IF met \in {"request_error", "timeout"} THEN Returns(FALSE, 0)
    ELSE IF met = "none" THEN Returns(TRUE, latency)
    ELSE Returns(FALSE, 0)

Range(s) == {s[k] : k \in 1..Len(s)}
NoResult == [valid |-> FALSE, lat |-> -1]

InsertBeforeTies(x, s) ==
    LET later == {k \in 1..Len(s) : s[k].lat >= x.lat}
        at == IF later = {} THEN Len(s) + 1
              ELSE CHOOSE k \in later : \A j \in later : k <= j
    IN  SubSeq(s, 1, at - 1) \o <<x>> \o SubSeq(s, at, Len(s))
\* valid_results.sort(key=lambda x: x[1]): a stable sort by latency
InsertByLatency(x, s) ==
    LET later == {k \in 1..Len(s) : s[k].lat > x.lat}
        at == IF later = {} THEN Len(s) + 1
              ELSE CHOOSE k \in later : \A j \in later : k <= j
    IN  SubSeq(s, 1, at - 1) \o <<x>> \o SubSeq(s, at, Len(s))
RECURSIVE SortByLatency(_)
SortByLatency(s) ==
    IF s = <<>> THEN <<>>
    ELSE InsertByLatency(s[Len(s)], SortByLatency(SubSeq(s, 1, Len(s) - 1)))

\* [(c, lat) for c, valid, lat in results if valid and lat > 0], in the
\* order of configs (gather returns the results in the order of its tasks)
IsValid(c) == results[c].valid /\ results[c].lat > 0
ValidResults ==
    LET valid == SelectSeq(configs, IsValid)
    IN  [k \in 1..Len(valid) |-> [config |-> valid[k], lat |-> results[valid[k]].lat]]

\* start_monitor calls verify_all_configs: ensure_xray(), then the semaphore
\* and one verify_one coroutine per config, handed to gather
VerifyAllStarts ==
    /\ monitor = "called"
    /\ IF ~xray_available
       THEN /\ valid_results' = NoneReturned
            /\ monitor' = "verified"
            /\ UNCHANGED <<tasks, sem, results>>
       ELSE /\ tasks' = [c \in Range(configs) |-> "created"]
            /\ sem' = concurrency
            /\ results' = [c \in Range(configs) |-> NoResult]
            /\ monitor' = "phase1"
            /\ UNCHANGED valid_results
    /\ UNCHANGED <<statVars, taskVars, tickVars, running, cancel_requested>>
    /\ UNCHANGED <<loadVars, worldVars, verifyVars, concurrency, calls, fault>>

\* the coroutines of a gather take their first step in the order they were
\* handed over
PlaceOf(c) == CHOOSE k \in 1..Len(configs) : configs[k] = c
FirstCreated(c) ==
    /\ tasks[c] = "created"
    /\ \A d \in DOMAIN tasks : tasks[d] = "created" => PlaceOf(c) <= PlaceOf(d)
\* a coroutine holding a slot makes its call
Calls(c) ==
    /\ sem' = sem - 1
    /\ tasks' = [tasks EXCEPT ![c] = "running"]
    /\ calls' = [calls EXCEPT ![c] = @ + 1]
\* "async with sem" of a coroutine that has just been started
TaskRuns(c) ==
    /\ FirstCreated(c)
    /\ IF sem > 0
       THEN Calls(c)
       ELSE /\ tasks' = [tasks EXCEPT ![c] = "waiting"]
            /\ UNCHANGED <<sem, calls>>
\* a released slot goes to a coroutine suspended in sem.acquire()
TaskGranted(c) ==
    /\ tasks[c] = "waiting"
    /\ sem > 0
    /\ Calls(c)

\* verify_one(config) starts
VerifyOneRuns ==
    /\ monitor = "phase1"
    /\ \E c \in DOMAIN tasks : TaskRuns(c)
    /\ UNCHANGED <<statVars, monVars, loadVars, worldVars, verifyVars>>
    /\ UNCHANGED <<concurrency, results, valid_results, fault>>

\* the verify_config call of verify_one(config) ends: it returns and the
\* coroutine returns (config, is_valid, latency), or it raises and so does
\* the coroutine; the slot is released either way
VerifyOneEnds ==
    /\ monitor = "phase1"
    /\ \E c \in DOMAIN tasks : \E met \in Conditions(c), latency \in VerifyLats :
          LET r == verify_config(met, latency)
          IN  /\ tasks[c] = "running"
              /\ fault' = [fault EXCEPT ![c] = met]
              /\ sem' = sem + 1
              /\ IF r.raised
                 THEN /\ tasks' = [tasks EXCEPT ![c] = "raised"]
                      /\ UNCHANGED results
                 ELSE /\ tasks' = [tasks EXCEPT ![c] = "done"]
                      /\ results' = [results EXCEPT
                                       ![c] = [valid |-> r.valid, lat |-> r.lat]]
    /\ UNCHANGED <<statVars, monVars, loadVars, worldVars, verifyVars>>
    /\ UNCHANGED <<concurrency, valid_results, calls>>

\* gather(*tasks) passes on the exception of a coroutine: verify_all_configs
\* raises it, and start_monitor, which catches nothing there, raises it too
GatherRaises ==
    /\ monitor = "phase1"
    /\ \E c \in DOMAIN tasks : tasks[c] = "raised"
    /\ monitor' = "raised"
    /\ UNCHANGED <<statVars, taskVars, tickVars, running, cancel_requested>>
    /\ UNCHANGED startVars

\* every coroutine has returned: verify_all_configs filters, sorts and
\* returns
GatherReturns ==
    /\ monitor = "phase1"
    /\ \A c \in DOMAIN tasks : tasks[c] = "done"
    /\ valid_results' = SortByLatency(ValidResults)
    /\ monitor' = "verified"
    /\ UNCHANGED <<statVars, taskVars, tickVars, running, cancel_requested>>
    /\ UNCHANGED <<loadVars, worldVars, verifyVars>>
    /\ UNCHANGED <<concurrency, tasks, sem, results, calls, fault>>

\* start_monitor takes the result: all configs when it is None, the
\* verified ones otherwise
verified_configs ==
    IF valid_results = NoneReturned THEN configs
    ELSE [k \in 1..Len(valid_results) |-> valid_results[k].config]
\* real_delays.get(cfg.raw_link, 100)
RealDelay(c) ==
    IF valid_results = NoneReturned THEN PrepopDefault
    ELSE LET k == CHOOSE j \in 1..Len(valid_results) :
                     valid_results[j].config = c
         IN  valid_results[k].lat
\* a monitor over every verified config
AllVerified == verified_configs
monitored_configs ==
    SubSeq(verified_configs, 1, Min(Len(verified_configs), MaxMonitored))

\* "No working configs found! Exiting.": start_monitor returns
NoWorkingConfigs ==
    /\ monitor = "verified"
    /\ verified_configs = <<>>
    /\ monitor' = "exited"
    /\ UNCHANGED <<statVars, taskVars, tickVars, running, cancel_requested>>
    /\ UNCHANGED startVars

\* Phase 2 starts: stats_map over the monitored configs, each window
\* pre-populated with its real delay, the semaphore, the pinger tasks
Phase2Starts ==
    /\ monitor = "verified"
    /\ verified_configs # <<>>
    /\ LET monitored == Range(monitored_configs)
       IN  /\ maxlen' = [t \in monitored |-> WinCap]
           /\ history' = [t \in monitored |-> <<Ok(RealDelay(t))>>]
           /\ smoothed_score' = [t \in monitored |-> None]
           /\ last_success_time' = [t \in monitored |-> now]
           /\ arrivals' = history'
           /\ pc' = [t \in monitored |-> "created"]
           /\ probe_started_at' = [t \in monitored |-> -1]
           /\ last_outcome' = [t \in monitored |-> "none"]
    /\ sem_value' = SemCapacity
    /\ waiters' = <<>>
    /\ running' = TRUE
    /\ monitor' = "ticking"
    /\ cached_snapshots' = monitored_configs
    /\ UNCHANGED <<now, current_snapshots, nranks, cancel_requested,
                   manual_mode, recommended_config, selected_config,
                   trigger_rescan>>
    /\ UNCHANGED startVars

\* a probe of the monitor ends as its verify_config call does
ProbeVerified(max) ==
    /\ Working(max)
    /\ \E t \in Monitored : \E met \in Conditions(t), latency \in MonLats :
          LET r == verify_config(met, latency)
          IN  /\ IF r.raised THEN ProbeRaise(t)
                 ELSE ProbeReturn(t, [up |-> r.valid, lat |-> r.lat])
              /\ fault' = [fault EXCEPT ![t] = met]
    /\ UNCHANGED <<loadVars, worldVars, verifyVars>>
    /\ UNCHANGED <<concurrency, tasks, sem, results, valid_results, calls>>

\* ------------------------------------------------------------------------
\* Specification of start_monitor from its call: up to NConfigs loaded
\* configs, the verifier available or not, Phase 1, then the first steps of
\* the monitor.  There are fewer configs than slots, so no coroutine waits.
\* ------------------------------------------------------------------------
InitStart ==
    /\ NoMonitor
    /\ monitor = "called"
    /\ lines = <<>>
    /\ \E n \in 0..NConfigs : configs = SubSeq(ConfigNames, 1, n)
    /\ raw_link = [c \in Range(configs) |-> c]
    /\ xray_available \in BOOLEAN
    /\ reachable \in SUBSET Range(configs)
    /\ concurrency = Phase1Concurrency
    /\ NoGather
    /\ calls = [c \in Range(configs) |-> 0]
    /\ fault = [c \in Range(configs) |-> "uncalled"]

NextStart ==
    \/ VerifyAllStarts
    \/ VerifyOneRuns
    \/ VerifyOneEnds
    \/ GatherRaises
    \/ GatherReturns
    \/ NoWorkingConfigs
    \/ Phase2Starts
    \/ LoopRuns(MaxStartWork, Monitored)
    \/ ProbeVerified(MaxStartWork)
    \/ ClockRuns(MaxStartWork, {SleepSeconds})
    \/ TickStep(MaxStartWork)
    \/ Exit

SpecStart == InitStart /\ [][NextStart]_vars

\* ------------------------------------------------------------------------
\* Specification of the monitor over a list that may name a link twice:
\* the two configs of Probed, the second with its own raw_link or with the
\* raw_link of the first.  stats_map holds one window per raw_link,
\* pinger_tasks one task per config of the list.
\* ------------------------------------------------------------------------
Links == {raw_link[t] : t \in DOMAIN raw_link}
ConfigsOf(w) == {t \in DOMAIN raw_link : raw_link[t] = w}
\* for cfg in monitored_configs: stats_map[cfg.raw_link].add(True, ...)
Prepopulated(w) == [k \in 1..Cardinality(ConfigsOf(w)) |-> Ok(PrepopDefault)]

InitLinks ==
    /\ now = 0
    /\ raw_link \in {f \in [Probed -> Probed] : \A t \in Probed : f[t] \in {t, "A"}}
    /\ maxlen = [w \in Links |-> WinCap]
    /\ arrivals = [w \in Links |-> Prepopulated(w)]
    /\ history = [w \in Links |->
                    SubSeq(arrivals[w],
                           Len(arrivals[w]) - Min(Len(arrivals[w]), WinCap) + 1,
                           Len(arrivals[w]))]
    /\ smoothed_score = [w \in Links |-> None]
    /\ last_success_time = [w \in Links |-> 0]
    /\ current_snapshots = <<>>
    /\ nranks = 0
    /\ pc = [t \in Probed |-> "created"]
    /\ sem_value = SemCapacity
    /\ waiters = <<>>
    /\ probe_started_at = [t \in Probed |-> -1]
    /\ last_outcome = [t \in Probed |-> "none"]
    /\ running = TRUE
    /\ monitor = "ticking"
    /\ cancel_requested = {}
    /\ manual_mode = FALSE
    /\ selected_config = NoConfig
    /\ trigger_rescan = FALSE
    /\ recommended_config = NoConfig
    /\ cached_snapshots = SelectSeq(ConfigNames, LAMBDA w : w \in Links)
    /\ lines = <<>>
    /\ configs = SelectSeq(ConfigNames, LAMBDA t : t \in Probed)
    /\ xray_available = TRUE
    /\ reachable = Probed
    /\ concurrency = 0
    /\ NoGather
    /\ calls = <<>>
    /\ fault = <<>>

NextLinks ==
    \/ LoopRuns(MaxTickWork, DOMAIN pc)
    \/ ProbeEnd(MaxTickWork)
    \/ ClockRuns(MaxTickWork, {SleepSeconds})
    \/ TickStep(MaxTickWork)

SpecLinks == InitLinks /\ [][NextLinks]_vars

\* ------------------------------------------------------------------------
\* ConfigParser.parse_file
\*
\* A line is known by what the parser looks at: its scheme, whether the
\* VMess payload decodes, whether an ss link has an "@", the host and the
\* port text it carries ("" when absent).  A config is known by its
\* protocol, address and port.
\* ------------------------------------------------------------------------
Schemes == {"vmess", "vless", "ss", "trojan"}
HostTexts == {"host", ""}
PortTexts == {"8080", "70000", "abc", ""}
Line(scheme, decodes, at, host, port) ==
    [scheme |-> scheme, decodes |-> decodes, at |-> at, host |-> host,
     port |-> port]
LineSet ==
    {Line("", TRUE, FALSE, "", ""), Line("http", TRUE, FALSE, "host", "8080")}
      \cup {Line("vmess", FALSE, FALSE, "", "")}
      \cup {Line("vmess", TRUE, FALSE, h, p) : h \in HostTexts, p \in PortTexts}
      \cup {Line(s, TRUE, FALSE, h, p) :
              s \in {"vless", "trojan"}, h \in HostTexts, p \in PortTexts}
      \cup {Line("ss", TRUE, FALSE, "", "")}
      \cup {Line("ss", TRUE, TRUE, h, p) : h \in HostTexts, p \in PortTexts}

Config(protocol, address, port) ==
    [raised |-> FALSE, none |-> FALSE,
     config |-> [protocol |-> protocol, address |-> address, port |-> port]]
NoDescriptor == [protocol |-> "", address |-> "", port |-> 0]
ValueError == [raised |-> TRUE, none |-> FALSE, config |-> NoDescriptor]
ReturnsNone == [raised |-> FALSE, none |-> TRUE, config |-> NoDescriptor]

\* int(text) of a port text, and the text int() rejects
Numeric(text) == text \in {"8080", "70000"}
IntOf(text) == IF text = "8080" THEN 8080 ELSE 70000
\* urlparse(link).port: None without a port, ValueError when the text is
\* not a number or the number is out of range
UrlPortRaises(text) == text # "" /\ (~Numeric(text) \/ IntOf(text) > 65535)

\* int(data.get("port", 0)) and data.get("add", "")
_parse_vmess(line) ==
    IF ~line.decodes THEN ValueError
    ELSE IF line.port # "" /\ ~Numeric(line.port) THEN ValueError
    ELSE Config("vmess", line.host, IF line.port = "" THEN 0 ELSE IntOf(line.port))
\* raises without a hostname; parsed.port if parsed.port else 443
_parse_vless(line) ==
    IF line.host = "" THEN ValueError
    ELSE IF UrlPortRaises(line.port) THEN ValueError
    ELSE Config("vless", line.host, IF line.port = "" THEN 443 ELSE IntOf(line.port))
\* with "@": host_port.split(":"), int() of the port or 8388; without: a
\* placeholder config
_parse_ss(line) ==
    IF line.at
    THEN IF line.port # "" /\ ~Numeric(line.port) THEN ValueError
         ELSE Config("ss", line.host,
                     IF line.port = "" THEN 8388 ELSE IntOf(line.port))
    ELSE Config("ss", "unknown", 0)
\* address = parsed.hostname (None without one), parsed.port or 443
_parse_trojan(line) ==
    IF UrlPortRaises(line.port) THEN ValueError
    ELSE Config("trojan", IF line.host = "" THEN "None" ELSE line.host,
                IF line.port = "" THEN 443 ELSE IntOf(line.port))

parse_link(line) ==
    IF line.scheme = "vmess" THEN _parse_vmess(line)
    ELSE IF line.scheme = "vless" THEN _parse_vless(line)
    ELSE IF line.scheme = "ss" THEN _parse_ss(line)
    ELSE IF line.scheme = "trojan" THEN _parse_trojan(line)
    ELSE ReturnsNone

\* one turn of "for line in lines": an empty line is skipped, a ValueError
\* is printed, None is dropped, a config is appended
parse_file_step(line, sofar) ==
    IF line.scheme = "" THEN sofar
    ELSE LET r == parse_link(line)
         IN  IF r.raised \/ r.none THEN sofar ELSE Append(sofar, r.config)

ParseLine ==
    /\ lines # <<>>
    /\ configs' = parse_file_step(Head(lines), configs)
    /\ lines' = Tail(lines)
    /\ UNCHANGED <<statVars, monVars, raw_link, worldVars, verifyVars, gatherVars>>

\* ------------------------------------------------------------------------
\* Specification of the parser: a file of up to MaxLines lines.
\* ------------------------------------------------------------------------
Files == UNION {[1..n -> LineSet] : n \in 0..MaxLines}

InitParse ==
    /\ NoMonitor
    /\ monitor = "uncalled"
    /\ lines \in Files
    /\ configs = <<>>
    /\ raw_link = <<>>
    /\ xray_available = TRUE
    /\ reachable = {}
    /\ concurrency = 0
    /\ NoGather
    /\ calls = <<>>
    /\ fault = <<>>

NextParse == ParseLine

SpecParse == InitParse /\ [][NextParse]_vars

\* ------------------------------------------------------------------------
\* Vocabulary of the properties
\* ------------------------------------------------------------------------
TimeSinceSuccess(t) == now - last_success_time[t]
DeadNow(t) == TimeSinceSuccess(t) > DeadThreshold
WarmupNow(t) == ~DeadNow(t) /\ Len(history[t]) < WarmupThreshold
EstablishedNow(t) == ~DeadNow(t) /\ Len(history[t]) >= WarmupThreshold

Ranked == current_snapshots # <<>>
Pos(t) == CHOOSE k \in DOMAIN current_snapshots : current_snapshots[k].config = t
Entry(t) == current_snapshots[Pos(t)]

Successes(h) == {k \in DOMAIN h : h[k].up}
\* pairs of successes with no success between them
Neighbours(h) ==
    {p \in Successes(h) \X Successes(h) :
        /\ p[1] < p[2]
        /\ \A k \in (p[1] + 1)..(p[2] - 1) : ~h[k].up}

RECURSIVE GapSum(_, _)
GapSum(h, P) ==
    IF P = {} THEN 0
    ELSE LET p == CHOOSE q \in P : TRUE
         IN  Abs(h[p[2]].lat - h[p[1]].lat) + GapSum(h, P \ {p})

\* ------------------------------------------------------------------------
\* C1: after N add() calls on a window of capacity C the history holds
\* min(N, C) entries, and they are the last min(N, C) samples that arrived,
\* in arrival order: a full window always gives up its oldest entry.
\* ------------------------------------------------------------------------
C1_FifoWindow ==
    \A t \in Targets :
        LET N == Len(arrivals[t])
            L == Min(N, maxlen[t])
        IN  /\ Len(history[t]) = L
            /\ history[t] = SubSeq(arrivals[t], N - L + 1, N)

C1_Witness ==
    /\ maxlen["A"] >= 2
    /\ Len(arrivals["A"]) >= maxlen["A"] + 2
    /\ arrivals["A"][1] # arrivals["A"][2]
    /\ arrivals["A"][2] # history["A"][1]

\* ------------------------------------------------------------------------
\* C2: get_metrics() reports a loss between 0 and 100 that is
\* failures / total * 100 over the samples now in the window, and loss 0
\* with sample_count 0 for an empty window.
\* ------------------------------------------------------------------------
C2_LossPct ==
    \A t \in Targets :
        LET h == history[t]
            m == get_metrics(h)
            failed == Len(h) - Cardinality(Successes(h))
        IN  /\ QLeq(QInt(0), m.loss) /\ QLeq(m.loss, QInt(100))
            /\ QMulInt(m.loss, Len(h)) = QInt(100 * failed)
            /\ m.count = Len(h)
            /\ h = <<>> => (m.loss = QInt(0) /\ m.count = 0)

\* a window that has evicted a failure and reports a fractional loss
C2_Witness ==
    /\ Len(arrivals["A"]) > Len(history["A"])
    /\ ~arrivals["A"][1].up
    /\ get_metrics(history["A"]).loss.n # 0
    /\ get_metrics(history["A"]).count = 3

\* ------------------------------------------------------------------------
\* C3: with fewer than 2 successes in the window latency and jitter are 0;
\* otherwise jitter is the mean of the absolute differences between each
\* success and the next success, failures in between skipped; the
\* successes 100, 120, 110 give jitter 15.
\* ------------------------------------------------------------------------
C3_Jitter ==
    \A t \in Targets :
        LET h == history[t]
            m == get_metrics(h)
            nv == Cardinality(Successes(h))
        IN  /\ nv < 2 => (m.lat = QInt(0) /\ m.jitter = QInt(0))
            /\ nv >= 2 =>
                 QMulInt(m.jitter, nv - 1) = QInt(GapSum(h, Neighbours(h)))
            /\ h = <<Ok(100), Ok(120), Ok(110)>> => m.jitter = QInt(15)

C3_Witness ==
    /\ history["A"] = <<Ok(100), Ok(120), Ok(110)>>
    /\ get_metrics(history["A"]).jitter = QInt(15)

\* a failure between two successes is skipped
C3_WitnessSkip ==
    /\ history["A"] = <<Ok(100), Fail, Ok(120)>>
    /\ get_metrics(history["A"]).jitter = QInt(20)

Metrics(t) == get_metrics(history[t])
Raw(t) == RawScore(Metrics(t).loss, Metrics(t).jitter, Metrics(t).lat)
ZeroLoss(t) == Metrics(t).loss = QInt(0)
RankedOrder == [k \in DOMAIN current_snapshots |-> current_snapshots[k].config]

\* ------------------------------------------------------------------------
\* C4: in every ranking a target whose time since last success exceeds the
\* dead threshold comes after every target that is not dead, warmup or
\* established, whatever its loss, latency and jitter.
\* ------------------------------------------------------------------------
C4_DeadLast ==
    Ranked =>
        \A a, b \in Targets :
            (DeadNow(a) /\ ~DeadNow(b)) => Pos(b) < Pos(a)

\* a dead target ranked together with a warmup target and with an
\* established target that has lost every sample of its window
C4_Witness ==
    /\ Ranked
    /\ DeadNow("C")
    /\ WarmupNow("B")
    /\ EstablishedNow("A")
    /\ Metrics("A").loss = QInt(100)

\* ------------------------------------------------------------------------
\* C5: get_score() of a dead target reports loss 100, and of two dead
\* targets the one that is longer without success has the strictly larger
\* score and is ranked later.
\* ------------------------------------------------------------------------
C5_DeadMonotone ==
    Ranked =>
        \A a \in Targets :
            DeadNow(a) =>
                /\ Entry(a).loss = QInt(100)
                /\ \A b \in Targets :
                     (DeadNow(b) /\ TimeSinceSuccess(a) < TimeSinceSuccess(b))
                        => /\ QLess(Entry(a).score, Entry(b).score)
                           /\ Pos(a) < Pos(b)

C5_Witness ==
    /\ Ranked
    /\ DeadNow("A") /\ DeadNow("C")
    /\ TimeSinceSuccess("A") < TimeSinceSuccess("C")
    /\ Metrics("A").loss # QInt(100)

\* ------------------------------------------------------------------------
\* C6: every warmup target (sample_count below 2, not dead) has a score
\* strictly above the score of every established target, whatever its
\* loss, and strictly below the score of every dead target.
\* ------------------------------------------------------------------------
C6_WarmupBand ==
    Ranked =>
        \A w \in Targets :
            WarmupNow(w) =>
                /\ \A e \in Targets :
                     EstablishedNow(e) => QLess(Entry(e).score, Entry(w).score)
                /\ \A d \in Targets :
                     DeadNow(d) => QLess(Entry(w).score, Entry(d).score)

\* ------------------------------------------------------------------------
\* C7: in a ranking that scores two zero-loss established targets for the
\* first time, the one with the lower latency and the lower jitter is
\* ranked first, and a target with no sample is ranked after every such
\* target.
\* ------------------------------------------------------------------------
FirstScored(t) == smoothed_score[t] = None /\ EstablishedNow(t) /\ ZeroLoss(t)

C7_FirstRanking ==
    [][nranks' # nranks =>
         \A a \in Targets :
             FirstScored(a) =>
                 /\ \A b \in Targets :
                      (/\ FirstScored(b)
                       /\ QLess(Metrics(a).lat, Metrics(b).lat)
                       /\ QLess(Metrics(a).jitter, Metrics(b).jitter))
                         => Pos(a)' < Pos(b)'
                 /\ \A c \in Targets :
                      history[c] = <<>> => Pos(a)' < Pos(c)']_vars

\* the first ranking puts B before A before the zero-sample C
C7_Witness ==
    /\ Ranked
    /\ nranks = 1
    /\ RankedOrder = <<"B", "A", "C">>
    /\ EstablishedNow("A") /\ ZeroLoss("A")
    /\ EstablishedNow("B") /\ ZeroLoss("B")
    /\ QLess(Metrics("B").lat, Metrics("A").lat)
    /\ QLess(Metrics("B").jitter, Metrics("A").jitter)
    /\ history["C"] = <<>>

\* ------------------------------------------------------------------------
\* C8: of two established targets, one with nonzero loss has a strictly
\* higher raw score than one with 0% loss, for every latency and jitter a
\* probe under the 5 s timeout reports and every loss a window of capacity
\* 100 holds.
\* ------------------------------------------------------------------------
C8_LossDominates ==
    Ranked =>
        \A a, b \in Targets :
            (/\ EstablishedNow(a) /\ EstablishedNow(b)
             /\ QLess(QInt(0), Metrics(a).loss)
             /\ ZeroLoss(b))
                => /\ QLess(Raw(b), Raw(a))
                   /\ QLess(Entry(b).score, Entry(a).score)

C9_WitnessFrozen ==
    /\ Ranked
    /\ DeadNow("B")
    /\ smoothed_score["B"] # None

\* ------------------------------------------------------------------------
\* C10: scoring and ranking are pure: the smoothing state (previous EMA
\* score, last-success time) changes only in a step in which add() appends
\* an outcome, and a ranking that follows a ranking with no add() in
\* between returns the same score for every target that is not dead.
\* ------------------------------------------------------------------------
C10_ScoringIsPure ==
    [][arrivals' = arrivals =>
         /\ smoothed_score' = smoothed_score
         /\ last_success_time' = last_success_time
         /\ (Ranked /\ nranks' # nranks) =>
               \A t \in Targets :
                   ~DeadNow(t) => Entry(t)'.score = Entry(t).score]_vars

\* the second half of C10 alone: a ranking right after a ranking returns the
\* same score for every target that is not dead
C10_SameScoreTwice ==
    [][(Ranked /\ nranks' # nranks) =>
         \A t \in Targets :
             ~DeadNow(t) => Entry(t)'.score = Entry(t).score]_vars

\* ------------------------------------------------------------------------
\* The ranked snapshot
\* ------------------------------------------------------------------------
PlacesOf(t) == {k \in DOMAIN current_snapshots : current_snapshots[k].config = t}
SameScore(j, k) ==
    /\ ~QLess(current_snapshots[j].score, current_snapshots[k].score)
    /\ ~QLess(current_snapshots[k].score, current_snapshots[j].score)

\* C11: the ranked snapshot of a tick holds every monitored target exactly
\* once, no entry has a lower score than an entry before it, and entries of
\* equal score stand in stats_map insertion order.
C11_RankedSnapshot ==
    Ranked =>
        /\ Len(current_snapshots) = Cardinality(Monitored)
        /\ \A t \in Monitored : Cardinality(PlacesOf(t)) = 1
        /\ \A j, k \in DOMAIN current_snapshots :
              j < k =>
                /\ ~QLess(current_snapshots[k].score, current_snapshots[j].score)
                /\ SameScore(j, k) =>
                      OrderIndex(current_snapshots[j].config)
                        < OrderIndex(current_snapshots[k].config)

\* a ranking that moved "A" behind two targets of equal score
C11_Witness ==
    /\ Ranked
    /\ Configs(current_snapshots) = <<"B", "C", "A">>
    /\ SameScore(1, 2)
    /\ ~SameScore(2, 3)

\* ------------------------------------------------------------------------
\* The probe loops
\* ------------------------------------------------------------------------
Probing == {t \in Monitored : pc[t] = "probing"}
InFlight == Cardinality(Probing)

\* C12: at every moment at most SemCapacity (5) probes are in flight, and
\* the slots taken from the semaphore are exactly those of the probes in
\* flight: a task that sleeps, waits or has finished holds none, however its
\* probe ended (result, exception, cancellation).
C12_LimiterBound ==
    /\ InFlight <= SemCapacity
    /\ sem_value = SemCapacity - InFlight

\* the limit is reached while a task that has given its slot back sleeps
C12_Witness ==
    /\ InFlight = SemCapacity
    /\ \E t \in Monitored : pc[t] = "sleeping"

\* the probe of t raises in this step
Raises(t) == pc[t] = "probing" /\ last_outcome'[t] = "raised"
\* nothing of target u moves in this step
Untouched(u) ==
    /\ pc'[u] = pc[u]
    /\ history'[u] = history[u]
    /\ arrivals'[u] = arrivals[u]
    /\ last_success_time'[u] = last_success_time[u]
    /\ smoothed_score'[u] = smoothed_score[u]
\* the sleep of t ends only after the polling interval, or by cancellation
SleepsFully(t) ==
    (pc[t] = "sleeping" /\ pc'[t] # "sleeping") =>
        \/ pc'[t] = "ready" /\ now' >= now + SleepSeconds
        \/ pc'[t] = "done" /\ t \in cancel_requested
\* a task whose sleep is over enters its next iteration while running holds
Continues(t) ==
    (pc[t] = "ready" /\ pc'[t] # "ready" /\ running) =>
        pc'[t] \in {"probing", "waiting"}

\* C13: when the probe of one target raises, exactly one failed sample is
\* appended to that target's window and the task goes to its 5 s sleep (it
\* does not end: no exception escapes the loop); in that step no other
\* target's task or window moves and the tick's state (recommendation,
\* mode, rankings, running) is untouched; the sleep ends only after the
\* 5 s, and the task then starts its next iteration.
C13_FaultContained ==
    [][\A t \in Monitored :
         /\ Raises(t) =>
               /\ arrivals'[t] = Append(arrivals[t], Fail)
               /\ history'[t] = DequeAppend(history[t], maxlen[t], Fail)
               /\ pc'[t] = "sleeping"
               /\ \A u \in Monitored \ {t} : Untouched(u)
               /\ UNCHANGED <<tickVars, exitVars, nranks>>
         /\ SleepsFully(t)
         /\ Continues(t)]_vars

\* the probe of "B" has raised and "B" sleeps, while the loop of "A" is in
\* its second probe and the tick has ranked
C13_Witness ==
    /\ last_outcome["B"] = "raised"
    /\ pc["B"] = "sleeping"
    /\ pc["A"] = "probing"
    /\ Len(arrivals["A"]) = 2
    /\ recommended_config # NoConfig

\* the loop of t calls verify_config in this step
Starts(t) == pc[t] # "probing" /\ pc'[t] = "probing"
\* t had been without a success for longer than the dead threshold when
\* its latest probe started, and that probe brought no success
DormantSinceProbe(t) ==
    /\ probe_started_at[t] >= 0
    /\ probe_started_at[t] - last_success_time[t] > DeadThreshold

\* C14: a loop whose target was already past the dead threshold at its
\* latest probe, and is still without a success, starts its next probe no
\* sooner than one dead-threshold duration after that probe.
C14_Dormancy ==
    [][\A t \in Monitored :
         (Starts(t) /\ DormantSinceProbe(t)) =>
             now - probe_started_at[t] >= DeadThreshold]_vars

\* ------------------------------------------------------------------------
\* Shutdown
\* ------------------------------------------------------------------------
\* the steps a task can still take once the finally block has run, from
\* its place p and whether its cancellation is still to be delivered: a
\* cancelled probe may first be turned into a failure, sleep and wake
StepsLeft(p, cancelling) ==
    IF p = "done" THEN 0
    ELSE IF cancelling THEN (IF p = "probing" THEN 4 ELSE 1)
    ELSE (IF p = "sleeping" THEN 3 ELSE 1)
\* the steps the drain can still take: those of the tasks, and the return
DrainSteps(places, cancelling, where) ==
    LET order == SelectSeq(ConfigNames, LAMBDA t : t \in DOMAIN places)
    IN  SumSeq([k \in 1..Len(order) |->
                  StepsLeft(places[order[k]], order[k] \in cancelling)])
          + (IF where = "returned" THEN 0 ELSE 1)

\* C15: start_monitor returns only when every pinger task has finished; and
\* once the finally block has begun (whatever the exit path) the drain
\* cannot stall and cannot go on for ever, so every task finishes and
\* start_monitor returns: until it has returned some step is possible, and
\* every step brings the count of remaining steps down.
C15_GracefulDrain ==
    /\ [](monitor = "returned" => AllDone)
    /\ [](monitor = "draining" => ENABLED NextLoops)
    /\ [][monitor = "draining" =>
            DrainSteps(pc', cancel_requested', monitor')
              < DrainSteps(pc, cancel_requested, monitor)]_vars

\* start_monitor has returned after a drain that cancelled a probe in
\* flight, a task in its sleep and a task that had never run
C15_Witness ==
    /\ monitor = "returned"
    /\ \E t \in Monitored : last_outcome[t] = "cancelled"
    /\ \E t \in Monitored : last_outcome[t] \in {"result", "raised"}
    /\ \E t \in Monitored : probe_started_at[t] = -1

\* the call of verify_config of t ends in this step
Finishes(t) == pc[t] = "probing" /\ pc'[t] # "probing"

\* C16: the shutdown forces nothing: every probe ends by its own result,
\* which is added to its window (also a probe that is in flight when the
\* finally block runs), and once running is False no loop starts a probe.
C16_NoForcedTermination ==
    [][\A t \in Monitored :
         /\ Finishes(t) =>
               /\ last_outcome'[t] # "cancelled"
               /\ Len(arrivals'[t]) = Len(arrivals[t]) + 1
         /\ ~running => ~Starts(t)]_vars

\* ------------------------------------------------------------------------
\* The recommendation
\* ------------------------------------------------------------------------
\* elapsed = time.time() - monitor_start_time
Elapsed == now - monitor_start_time

\* C17: while less than the grace period (60 s) has elapsed since the
\* monitor started, no target is recommended.
C17_GracePeriod == Elapsed < GracePeriod => recommended_config = NoConfig

\* the 1-based rank of a target in a ranking of targets, 0 when absent
RankIn(ranking, t) ==
    IF \E k \in 1..Len(ranking) : ranking[k] = t
    THEN CHOOSE k \in 1..Len(ranking) : ranking[k] = t
    ELSE 0
\* a rank inside the hysteresis band: rank <= K with K = 10
InBand(k) == k >= 1 /\ k <= 10
\* a step of the evaluation tick that starts and ends in automatic mode
\* while a target is recommended
AutoTick ==
    /\ nranks' # nranks
    /\ ~manual_mode /\ ~manual_mode'
    /\ recommended_config # NoConfig

\* C18: in automatic mode, a recommended target whose rank is inside the
\* hysteresis band at the previous tick and at this tick is still the
\* recommended target after this tick.
C18_Hysteresis ==
    [][(/\ AutoTick
        /\ InBand(RankIn(cached_snapshots, recommended_config))
        /\ InBand(RankIn(Configs(current_snapshots'), recommended_config)))
       => recommended_config' = recommended_config]_vars

\* a verify_config call on t returns success in this step
VerifiedNow(t) ==
    /\ pc[t] = "probing"
    /\ last_outcome'[t] = "result"
    /\ Len(arrivals'[t]) = Len(arrivals[t]) + 1
    /\ arrivals'[t][Len(arrivals'[t])].up

\* C19: a step that makes a target Y the recommendation (from none or from
\* another target) is a step in which a verifier call on Y returns success.
C19_VerifiedSwitch ==
    [][(/\ recommended_config' # recommended_config
        /\ recommended_config' # NoConfig)
       => VerifiedNow(recommended_config')]_vars

\* C20: a tick in automatic mode that ranks the recommended target outside
\* the hysteresis band starts a verifier call on a candidate.
C20_ReEvaluation ==
    [][(/\ AutoTick
        /\ ~InBand(RankIn(Configs(current_snapshots'), recommended_config)))
       => \E t \in Monitored : Starts(t)]_vars

\* the latest verify_config call on t failed, and it was started at the
\* present second: no cooldown can have expired since
FailedNow(t) ==
    /\ last_outcome[t] \in {"result", "raised"}
    /\ ~arrivals[t][Len(arrivals[t])].up
    /\ probe_started_at[t] = now
\* the entry of t in a ranked snapshot
EntryIn(snaps, t) == snaps[RankIn(Configs(snaps), t)]

\* C21: a tick in automatic mode never recommends a target whose
\* verification has just failed (it is excluded until a cooldown expires),
\* and the target it recommends has loss < 100 %.
C21_Excluded ==
    [][(nranks' # nranks /\ ~manual_mode' /\ recommended_config' # NoConfig)
       => /\ ~FailedNow(recommended_config')
          /\ QLess(EntryIn(current_snapshots', recommended_config').loss,
                   QInt(100))]_vars

\* ------------------------------------------------------------------------
\* The verifier and Phase 1
\* ------------------------------------------------------------------------
\* the verify_config call of verify_one(c) ends in this step
VerifyCallEnds(c) ==
    /\ c \in DOMAIN tasks
    /\ tasks[c] = "running"
    /\ tasks'[c] # "running"
\* the verify_config call of the pinger loop of c ends in this step
ProbeCallEnds(c) ==
    /\ c \in DOMAIN pc
    /\ pc[c] = "probing"
    /\ pc'[c] # "probing"
NotValid == [valid |-> FALSE, lat |-> 0]

\* C22: no verify_config call raises to its caller, and a call that met an
\* internal failure returns (False, 0).
C22_VerifierContract ==
    [][\A c \in Range(configs) :
         /\ VerifyCallEnds(c) =>
              /\ tasks'[c] # "raised"
              /\ fault'[c] # "none" => results'[c] = NotValid
         /\ ProbeCallEnds(c) =>
              /\ last_outcome'[c] # "raised"
              /\ fault'[c] # "none" => arrivals'[c][Len(arrivals'[c])] = Fail]_vars

\* the samples the pinger loop of t has recorded (the first sample of a
\* window is the pre-population of Phase 2)
Probes(t) == SubSeq(arrivals[t], 2, Len(arrivals[t]))

\* C23: with the verifier unavailable the monitor runs over the loaded
\* configs (it exits only when none was loaded), and every sample a loop
\* records for a config whose server does not answer is a failure.
C23_DegradedMode ==
    ~xray_available =>
        /\ monitor = "exited" => configs = <<>>
        /\ monitor # "raised"
        /\ \A t \in Monitored :
              t \notin reachable => \A k \in 1..Len(Probes(t)) : ~Probes(t)[k].up

Appended(w) == arrivals'[w] # arrivals[w] \/ history'[w] # history[w]

\* C25: once the loops run, the window of a target is appended to only by
\* the one loop of that target, as the verify_config call of that loop
\* ends; the step leaves every other window alone, and a tick appends to
\* no window.
C25_SingleWriter ==
    [][/\ \A w \in Monitored :
            Appended(w) =>
               /\ w \in DOMAIN pc
               /\ pc[w] = "probing" /\ pc'[w] = "sleeping"
               /\ \A v \in Monitored \ {w} : ~Appended(v)
       /\ nranks' # nranks => \A w \in Monitored : ~Appended(w)]_vars

\* ------------------------------------------------------------------------
\* The load
\* ------------------------------------------------------------------------
UsablePort(port) == port >= 1 /\ port <= 65535
WellFormed(config) ==
    /\ config.protocol \in Schemes
    /\ config.address = "host"
    /\ UsablePort(config.port)
\* a line whose scheme is unknown, whose payload does not decode, which
\* names no host, or which carries no usable port (an absent port of a
\* scheme with a default port is usable)
Malformed(line) ==
    \/ line.scheme \notin Schemes
    \/ ~line.decodes
    \/ line.scheme = "ss" /\ ~line.at
    \/ line.host = ""
    \/ line.port # "" /\ (~Numeric(line.port) \/ ~UsablePort(IntOf(line.port)))
    \/ line.port = "" /\ line.scheme = "vmess"

\* C26: parse_file appends a config for a line exactly when the line is not
\* malformed, so its list holds only well-formed configs, one per
\* well-formed line in file order.
C26_LoadTimeRejection ==
    [][lines' # lines =>
         /\ Malformed(Head(lines)) => configs' = configs
         /\ ~Malformed(Head(lines)) =>
               /\ Len(configs') = Len(configs) + 1
               /\ SubSeq(configs', 1, Len(configs)) = configs
         /\ \A k \in 1..Len(configs') : WellFormed(configs'[k])]_vars

\* ------------------------------------------------------------------------
\* What ends start_monitor
\* ------------------------------------------------------------------------
\* C27: when Phase 1 leaves no config, start_monitor returns at once with
\* no window, pinger task or dashboard built; a monitor that runs has at
\* least one config; and once it runs, the end of a probe (a result, a
\* failure, an exception) leaves it running: it leaves its tick loop only
\* by a step that is not the outcome of a probe.
C27_FatalOnlyAtStartup ==
    [][/\ (monitor = "verified" /\ verified_configs = <<>>) =>
             /\ monitor' = "exited"
             /\ pc' = <<>> /\ history' = <<>> /\ nranks' = 0
       /\ monitor' = "exited" => monitor = "verified" /\ verified_configs = <<>>
       /\ monitor' = "ticking" => DOMAIN pc' # {}
       /\ \A t \in DOMAIN pc :
             ProbeCallEnds(t) => monitor' = "ticking" /\ running'
       /\ (monitor = "ticking" /\ monitor' # "ticking") =>
             /\ monitor' = "draining"
             /\ arrivals' = arrivals /\ pc' = pc]_vars
\* every probe of the only monitored config has failed, one by an
\* exception, and the monitor has ticked since
C27_Witness ==
    /\ monitor = "ticking"
    /\ Cardinality(Monitored) = 1
    /\ \E t \in Monitored :
          /\ last_outcome[t] = "raised"
          /\ \A k \in 1..Len(Probes(t)) : ~Probes(t)[k].up
    /\ current_snapshots # <<>>
    /\ recommended_config # NoConfig

\* ------------------------------------------------------------------------
\* C28: verify_all_configs returns None exactly when the verifier binary is
\* unavailable.  Otherwise it returns the configs whose result is valid
\* with a latency above 0, each once with that latency, in ascending
\* order of latency, configs of equal latency in the order of the input.
\* ------------------------------------------------------------------------
Qualifies(c) == results[c].valid /\ results[c].lat > 0
Ascending(s) ==
    \A j, k \in 1..Len(s) :
       j < k => \/ s[j].lat < s[k].lat
                \/ /\ s[j].lat = s[k].lat
                   /\ PlaceOf(s[j].config) < PlaceOf(s[k].config)
C28_VerifyAllResult ==
    [][(monitor \in {"called", "phase1"} /\ monitor' = "verified") =>
          IF ~xray_available
          THEN valid_results' = NoneReturned
          ELSE /\ valid_results' # NoneReturned
               /\ \A k \in 1..Len(valid_results') :
                     /\ valid_results'[k].config \in Range(configs)
                     /\ Qualifies(valid_results'[k].config)
                     /\ valid_results'[k].lat = results[valid_results'[k].config].lat
               /\ \A c \in Range(configs) :
                     Cardinality({k \in 1..Len(valid_results') :
                                     valid_results'[k].config = c})
                        = IF Qualifies(c) THEN 1 ELSE 0
               /\ Ascending(valid_results')]_vars
\* both configs were verified, the second of the input faster than the
\* first, and one behaviour where both took the same time
C28_Witness ==
    /\ monitor = "verified"
    /\ xray_available
    /\ Len(configs) = 2
    /\ Len(valid_results) = 2
    /\ valid_results[1].config = configs[2]
    /\ valid_results[1].lat < valid_results[2].lat

\* ------------------------------------------------------------------------
\* Quick mode of cli.async_main: TCP checks of every loaded config
\* ------------------------------------------------------------------------
ConnectLats == {20, 40}
\* ProxyChecker.check_tcp_connect(config): it returns (True, latency, "")
\* when the connection opens and (False, 0, message) on a timeout or any
\* other exception
ConnectUpOnClose(met, latency) ==
    IF met \in {"opened", "close_error"}
    THEN [valid |-> TRUE, lat |-> latency, msg |-> ""]
    ELSE [valid |-> FALSE, lat |-> 0, msg |-> "Timeout"]

\* what a check of c can meet: the connection opens in time and closes,
\* it opens and wait_closed() raises, wait_for times out, the connection
\* is refused, any other exception (name resolution, a port out of range)
ConnectMeets(c) ==
    IF c \in reachable THEN {"opened", "close_error"}
    ELSE {"timeout", "refused", "error"}
\* str(e) of the exception caught
ExceptionText(met) ==
    IF met = "close_error" THEN "[Errno 104] Connection reset by peer"
    ELSE IF met = "refused" THEN "[Errno 111] Connect call failed"
    ELSE "[Errno -2] Name or service not known"
check_tcp_connect(met, latency) ==
    IF met = "opened" THEN [valid |-> TRUE, lat |-> latency, msg |-> ""]
    ELSE IF met = "timeout" THEN [valid |-> FALSE, lat |-> 0, msg |-> "Timeout"]
    ELSE [valid |-> FALSE, lat |-> 0, msg |-> ExceptionText(met)]

Connecting == {c \in DOMAIN tasks : tasks[c] = "running"}

\* results = await asyncio.gather(*(check_tcp_connect(c) for c in configs)):
\* a coroutine of the first gather starts its connection
ConnectRuns ==
    /\ monitor = "quick1"
    /\ \E c \in DOMAIN tasks :
          /\ FirstCreated(c)
          /\ tasks' = [tasks EXCEPT ![c] = "running"]
          /\ calls' = [calls EXCEPT ![c] = @ + 1]
    /\ UNCHANGED <<statVars, monVars, loadVars, worldVars, verifyVars>>
    /\ UNCHANGED <<concurrency, sem, results, valid_results, fault>>

\* a connection of the first gather ends
ConnectEnds ==
    /\ monitor = "quick1"
    /\ \E c \in Connecting : \E met \in ConnectMeets(c), latency \in ConnectLats :
          /\ tasks' = [tasks EXCEPT ![c] = "done"]
          /\ fault' = [fault EXCEPT ![c] = met]
          /\ results' = [results EXCEPT ![c] = check_tcp_connect(met, latency)]
    /\ UNCHANGED <<statVars, monVars, loadVars, worldVars, verifyVars>>
    /\ UNCHANGED <<concurrency, sem, valid_results, calls>>

\* the first gather returns; the semaphore and one check_wrapper per
\* config are made and handed to the second gather
WrappersCreated ==
    /\ monitor = "quick1"
    /\ \A c \in DOMAIN tasks : tasks[c] = "done"
    /\ sem' = concurrency
    /\ tasks' = [c \in Range(configs) |-> "created"]
    /\ monitor' = "quick2"
    /\ UNCHANGED <<statVars, taskVars, tickVars, running, cancel_requested>>
    /\ UNCHANGED <<loadVars, worldVars, verifyVars>>
    /\ UNCHANGED <<concurrency, results, valid_results, calls, fault>>

\* check_wrapper(c) reaches "async with sem"
WrapperRuns ==
    /\ monitor = "quick2"
    /\ \E c \in DOMAIN tasks : TaskRuns(c)
    /\ UNCHANGED <<statVars, monVars, loadVars, worldVars, verifyVars>>
    /\ UNCHANGED <<concurrency, results, valid_results, fault>>

\* a waiting check_wrapper gets the slot another one released
WrapperGranted ==
    /\ monitor = "quick2"
    /\ \E c \in DOMAIN tasks : TaskGranted(c)
    /\ UNCHANGED <<statVars, monVars, loadVars, worldVars, verifyVars>>
    /\ UNCHANGED <<concurrency, results, valid_results, fault>>

\* the check of check_wrapper(c) ends and the slot is released
WrapperEnds ==
    /\ monitor = "quick2"
    /\ \E c \in Connecting : \E met \in ConnectMeets(c), latency \in ConnectLats :
          /\ tasks' = [tasks EXCEPT ![c] = "done"]
          /\ sem' = sem + 1
          /\ fault' = [fault EXCEPT ![c] = met]
          /\ results' = [results EXCEPT ![c] = check_tcp_connect(met, latency)]
    /\ UNCHANGED <<statVars, monVars, loadVars, worldVars, verifyVars>>
    /\ UNCHANGED <<concurrency, valid_results, calls>>

\* results.sort(key=lambda x: (not x[1], x[2])): the reachable ones first,
\* then by latency, a stable sort
QuickKeyLess(x, y) ==
    \/ x.valid /\ ~y.valid
    \/ x.valid = y.valid /\ x.lat < y.lat
InsertByQuickKey(x, s) ==
    LET later == {k \in 1..Len(s) : QuickKeyLess(x, s[k])}
        at == IF later = {} THEN Len(s) + 1
              ELSE CHOOSE k \in later : \A j \in later : k <= j
    IN  SubSeq(s, 1, at - 1) \o <<x>> \o SubSeq(s, at, Len(s))
RECURSIVE SortByQuickKey(_)
SortByQuickKey(s) ==
    IF s = <<>> THEN <<>>
    ELSE InsertByQuickKey(s[Len(s)], SortByQuickKey(SubSeq(s, 1, Len(s) - 1)))

\* the second gather returns its results in the order of configs; they are
\* sorted and printed
QuickReports ==
    /\ monitor = "quick2"
    /\ \A c \in DOMAIN tasks : tasks[c] = "done"
    /\ valid_results' =
          SortByQuickKey([k \in 1..Len(configs) |->
                            [config |-> configs[k],
                             valid |-> results[configs[k]].valid,
                             lat |-> results[configs[k]].lat]])
    /\ monitor' = "reported"
    /\ UNCHANGED <<statVars, taskVars, tickVars, running, cancel_requested>>
    /\ UNCHANGED <<loadVars, worldVars, verifyVars>>
    /\ UNCHANGED <<concurrency, tasks, sem, results, calls, fault>>

\* ------------------------------------------------------------------------
\* Specification of the quick mode: up to NConfigs loaded configs, each
\* reachable or not, --concurrency from 1 to MaxConcurrency, from the first
\* gather to the report.
\* ------------------------------------------------------------------------
InitQuick ==
    /\ NoMonitor
    /\ NoVerify
    /\ monitor = "quick1"
    /\ lines = <<>>
    /\ \E n \in 0..NConfigs : configs = SubSeq(ConfigNames, 1, n)
    /\ raw_link = [c \in Range(configs) |-> c]
    /\ xray_available = TRUE
    /\ reachable \in SUBSET Range(configs)
    /\ concurrency \in 1..MaxConcurrency
    /\ tasks = [c \in Range(configs) |-> "created"]
    /\ sem = 0
    /\ results = [c \in Range(configs) |-> NoResult]
    /\ valid_results = <<>>
    /\ calls = [c \in Range(configs) |-> 0]
    /\ fault = [c \in Range(configs) |-> "uncalled"]

NextQuick ==
    \/ ConnectRuns
    \/ ConnectEnds
    \/ WrappersCreated
    \/ WrapperRuns
    \/ WrapperGranted
    \/ WrapperEnds
    \/ QuickReports

SpecQuick == InitQuick /\ [][NextQuick]_vars

\* ------------------------------------------------------------------------
\* C29: in quick mode at most --concurrency TCP checks are in flight at a
\* time, and every loaded config is checked exactly once: never more than
\* once, and once by the time the results are reported.
\* ------------------------------------------------------------------------
C29_QuickBounded ==
    /\ Cardinality(Connecting) <= concurrency
    /\ \A c \in Range(configs) : calls[c] <= 1
    /\ monitor = "reported" => \A c \in Range(configs) : calls[c] = 1

\* the positions of a ranked snapshot whose loss is below 50 %
LowLossRanks(snaps) ==
    {k \in 1..Len(snaps) : QLess(snaps[k].loss, QInt(LowLossLimit))}
\* position k comes first among the positions of ks, and no entry there has
\* a lower score
LowestOf(snaps, ks, k) ==
    /\ k \in ks
    /\ \A j \in ks : k <= j /\ ~QLess(snaps[j].score, snaps[k].score)

\* C30: a tick that ends in automatic mode with a non-empty ranking leaves
\* as recommendation the lowest-score target among those with loss below
\* 50 %, or the lowest-score target of all when no target has such a loss.
C30_AutoSelection ==
    [][(nranks' # nranks /\ ~manual_mode' /\ current_snapshots' # <<>>) =>
          LET snaps == current_snapshots'
              low == LowLossRanks(snaps)
              ks == IF low # {} THEN low ELSE 1..Len(snaps)
          IN  \E k \in ks :
                 /\ LowestOf(snaps, ks, k)
                 /\ recommended_config' = snaps[k].config]_vars
\* a tick has passed over the top-ranked target, whose loss is 50 % or
\* more, and recommended a target ranked below it
C30_Witness ==
    /\ nranks > 0
    /\ ~manual_mode
    /\ current_snapshots # <<>>
    /\ 1 \notin LowLossRanks(current_snapshots)
    /\ LowLossRanks(current_snapshots) # {}
    /\ recommended_config # current_snapshots[1].config
    /\ \E k \in LowLossRanks(current_snapshots) :
          recommended_config = current_snapshots[k].config

\* ------------------------------------------------------------------------
\* The network health header of generate_dashboard
\* ------------------------------------------------------------------------
\* snapshots of generate_dashboard: one get_score() per window, on the
\* state the tick's own scoring has left, sorted by score
DashboardSnapshots ==
    SortByScore([k \in 1..Len(Order) |-> SnapshotOf(Order[k])])
\* established_stats = [s for s in snapshots if s[0] < 900000 and s[1] < 100]
IsEstablished(s) ==
    QLess(s.score, QInt(BandBoundary)) /\ QLess(s.loss, QInt(100))
established_stats(snapshots) == SelectSeq(snapshots, IsEstablished)
\* warmup_stats = [s for s in snapshots
\*                 if s[0] >= 900000 and s[1] < 100 and s[5] > 0]
IsWarmingUp(s) ==
    /\ ~QLess(s.score, QInt(BandBoundary))
    /\ QLess(s.loss, QInt(100))
    /\ s.count > 0
warmup_stats(snapshots) == SelectSeq(snapshots, IsWarmingUp)

\* the target is in the list
CountedIn(stats, t) == \E k \in 1..Len(stats) : stats[k].config = t

\* ------------------------------------------------------------------------
\* C31: the dashboard counts a target as warming up only if its sample
\* count is below the warmup threshold; it counts as established every
\* live target with at least that many samples and loss below 100 %; no
\* target is in both groups.
\* ------------------------------------------------------------------------
C31_HealthBands ==
    Ranked =>
        \A t \in Targets :
            /\ CountedIn(warmup_stats(DashboardSnapshots), t)
                  => Len(history[t]) < WarmupThreshold
            /\ (/\ EstablishedNow(t)
                /\ QLess(Metrics(t).loss, QInt(100)))
                  => CountedIn(established_stats(DashboardSnapshots), t)
            /\ ~(/\ CountedIn(warmup_stats(DashboardSnapshots), t)
                 /\ CountedIn(established_stats(DashboardSnapshots), t))

\* ------------------------------------------------------------------------
\* C32: a pass of the tick loop in which the user has typed r (or R) sets
\* trigger_rescan and stops the monitor loop.
\* ------------------------------------------------------------------------
C32_RescanKey ==
    [][(TickTyped("r") \/ TickTyped("R")) => trigger_rescan' /\ ~running']_vars

\* t records a successful probe in this step
SucceedsNow(t) ==
    /\ Len(arrivals'[t]) = Len(arrivals[t]) + 1
    /\ arrivals'[t][Len(arrivals'[t])].up

\* ------------------------------------------------------------------------
\* C33: a successful probe recorded by a dead target resets its
\* last-success time to the present; and a target scored no more than the
\* dead threshold (600 s) after its last-success time is not in the dead
\* tier: its reported loss is the loss of its window and its score is below
\* the dead band.
\* ------------------------------------------------------------------------
C33_DeadRecovery ==
    /\ [][\A t \in Targets :
            (DeadNow(t) /\ SucceedsNow(t)) =>
                /\ last_success_time'[t] = now'
                /\ ~DeadNow(t)']_vars
    /\ [](Ranked =>
            \A t \in Targets :
                TimeSinceSuccess(t) <= DeadThreshold =>
                    /\ Entry(t).loss = Metrics(t).loss
                    /\ QLess(Entry(t).score, QInt(DeadOffset)))
\* A was dead, recorded its only success, and is ranked outside the dead
\* tier a full dead threshold later
C33_Witness ==
    /\ Ranked
    /\ last_success_time["A"] > DeadThreshold
    /\ Len(arrivals["A"]) >= 2
    /\ \A k \in 1..Len(arrivals["A"]) :
          arrivals["A"][k].up <=> k = Len(arrivals["A"])
    /\ TimeSinceSuccess("A") = DeadThreshold
    /\ QLess(Entry("A").loss, QInt(100))
    /\ QLess(Entry("A").score, QInt(DeadOffset))


\* the check_tcp_connect call on c ends in this step
ConnectCallEnds(c) ==
    /\ monitor \in {"quick1", "quick2"}
    /\ c \in DOMAIN tasks
    /\ tasks[c] = "running"
    /\ tasks'[c] # "running"

PortLow == 30000
PortHigh == 40000
NPorts == 2
NCallers == 2
MaxVerifyCalls == 2

LocalPorts == {p \in PortLow..(PortLow + NPorts - 1) : p <= PortHigh}
Callers == First(NCallers)
NotCalled == [at |-> "idle", port |-> 0, proc |-> "none", wrote |-> FALSE]
InFlightCalls == {c \in DOMAIN verify : verify[c].at # "idle"}
CallsMade == SumSeq([k \in 1..Len(configs) |-> calls[configs[k]]])

\* process.terminate(); process.wait(timeout=1), and process.kill() when
\* the wait times out: what becomes of the process in the finally block
LeftRunning(proc) == {proc}
Stopped(proc) == IF proc = "running" THEN {"terminated", "killed"} ELSE {proc}

\* the way out of the call through the finally block, returning or
\* raising r: the process is stopped and the temp file removed if it exists
VerifyLeaves(c, met, r) ==
    /\ \E proc \in Stopped(verify[c].proc) :
        verify' = [verify EXCEPT ![c].at = "idle", ![c].proc = proc]
    /\ temp_files' = temp_files \ {verify[c].port}
    /\ fault' = [fault EXCEPT ![c] = met]
    /\ results' = [results EXCEPT ![c] = r]

VerifyFrame ==
    UNCHANGED <<statVars, monVars, loadVars, worldVars, concurrency, tasks,
                sem, valid_results>>

\* the call up to its first await: ensure_xray, the port, the file
VerifyUnavailable(c) ==
    /\ ~xray_available
    /\ verify' = [verify EXCEPT ![c] = NotCalled]
    /\ fault' = [fault EXCEPT ![c] = "unavailable"]
    /\ results' = [results EXCEPT ![c] = verify_config("unavailable", 0)]
    /\ UNCHANGED temp_files

\* _generate_outbound returns nothing for the protocol: the call passes
\* the config before any file is written
VerifyUnsupported(c) ==
    /\ xray_available
    /\ verify' = [verify EXCEPT ![c] = NotCalled]
    /\ fault' = [fault EXCEPT ![c] = "unsupported"]
    /\ results' = [results EXCEPT ![c] = Returns(TRUE, 0)]
    /\ UNCHANGED temp_files

\* open() or json.dump() raises, before the try statement: the file may
\* be left behind, half written
VerifyWriteFails(c, port) ==
    /\ xray_available
    /\ verify' = [verify EXCEPT ![c] = [NotCalled EXCEPT !.port = port]]
    /\ \E left \in BOOLEAN :
        temp_files' = IF left THEN temp_files \cup {port} ELSE temp_files
    /\ fault' = [fault EXCEPT ![c] = "write_error"]
    /\ results' = [results EXCEPT ![c] = verify_config("write_error", 0)]

\* Popen raises: except Exception, then the finally block with no process
VerifySpawnFails(c, port) ==
    /\ xray_available
    /\ verify' = [verify EXCEPT ![c] = [NotCalled EXCEPT !.port = port,
                                                        !.wrote = TRUE]]
    /\ temp_files' = temp_files \ {port}
    /\ fault' = [fault EXCEPT ![c] = "start_error"]
    /\ results' = [results EXCEPT ![c] = verify_config("start_error", 0)]

\* the file is written, the process spawned, the call sleeps
VerifySpawns(c, port) ==
    /\ xray_available
    /\ verify' = [verify EXCEPT ![c] = [at |-> "starting", port |-> port,
                                        proc |-> "running", wrote |-> TRUE]]
    /\ temp_files' = temp_files \cup {port}
    /\ fault' = [fault EXCEPT ![c] = "none"]
    /\ results' = [results EXCEPT ![c] = NoResult]

VerifyCalled(c) ==
    /\ monitor = "verifying"
    /\ verify[c].at = "idle"
    /\ CallsMade < MaxVerifyCalls
    /\ calls' = [calls EXCEPT ![c] = @ + 1]
    /\ \/ VerifyUnavailable(c)
       \/ VerifyUnsupported(c)
       \/ \E port \in LocalPorts :
            \/ VerifyWriteFails(c, port)
            \/ VerifySpawnFails(c, port)
            \/ VerifySpawns(c, port)
    /\ VerifyFrame

\* the sleep ends: process.poll()
VerifyCrashed(c) ==
    /\ verify' = [verify EXCEPT ![c].at = "idle", ![c].proc = "exited"]
    /\ temp_files' = temp_files \ {verify[c].port}
    /\ fault' = [fault EXCEPT ![c] = "crashed"]
    /\ results' = [results EXCEPT ![c] = verify_config("crashed", 0)]

VerifyRequests(c) ==
    /\ verify' = [verify EXCEPT ![c].at = "requesting"]
    /\ UNCHANGED <<temp_files, fault, results>>

\* the task is cancelled in the sleep: CancelledError is no Exception, so
\* it passes the except clause and leaves through the finally block
VerifyCancelledAsleep(c) == VerifyLeaves(c, "cancelled", Propagates)

VerifyWakes(c) ==
    /\ monitor = "verifying"
    /\ verify[c].at = "starting"
    /\ \/ VerifyCrashed(c)
       \/ VerifyRequests(c)
       \/ VerifyCancelledAsleep(c)
    /\ UNCHANGED calls
    /\ VerifyFrame

\* the request ends: a 204 in time, another status, an error, the total
\* timeout, or a cancellation, which the bare except swallows
RequestFaults == {"none", "bad_status", "request_error", "timeout",
                  "cancelled"}
VerifyAnswered(c) ==
    /\ monitor = "verifying"
    /\ verify[c].at = "requesting"
    /\ \E met \in RequestFaults, latency \in VerifyLats :
        VerifyLeaves(c, met, verify_config(met, latency))
    /\ UNCHANGED calls
    /\ VerifyFrame

InitVerify ==
    /\ NoMonitor
    /\ monitor = "verifying"
    /\ lines = <<>>
    /\ configs = SubSeq(ConfigNames, 1, NCallers)
    /\ raw_link = [c \in Range(configs) |-> c]
    /\ xray_available \in BOOLEAN
    /\ reachable = {}
    /\ concurrency = NCallers
    /\ tasks = [c \in Range(configs) |-> "created"]
    /\ sem = 0
    /\ results = [c \in Range(configs) |-> NoResult]
    /\ valid_results = <<>>
    /\ calls = [c \in Range(configs) |-> 0]
    /\ fault = [c \in Range(configs) |-> "uncalled"]
    /\ verify = [c \in Range(configs) |-> NotCalled]
    /\ temp_files = {}

NextVerify ==
    \E c \in Callers :
        \/ VerifyCalled(c)
        \/ VerifyWakes(c)
        \/ VerifyAnswered(c)

SpecVerify == InitVerify /\ [][NextVerify]_vars

\* a step in which the call of c leaves verify_config
VerifyReturns(c) ==
    /\ verify'[c].at = "idle"
    /\ verify[c].at # "idle" \/ calls'[c] # calls[c]

\* C35: on every way out of a call that wrote its temp config file, its
\* process is no longer running (terminated, killed, exited, or never
\* spawned) and its temp config file no longer exists
C35_VerifierCleanup ==
    [][\A c \in Callers :
        VerifyReturns(c) /\ verify'[c].wrote =>
            /\ verify'[c].proc # "running"
            /\ verify'[c].port \notin temp_files']_vars

\* a call cancelled in its sleep has left, its process stopped and its
\* file gone
C35_Witness ==
    \E c \in Callers :
        /\ fault[c] = "cancelled"
        /\ results[c] = Propagates
        /\ verify[c].at = "idle"
        /\ verify[c].proc \in {"terminated", "killed"}
        /\ verify[c].port \notin temp_files

\* C36: two calls in flight at the same time never use the same local
\* port, and so never the same temp config file
C36_NoPortCollision ==
    \A a \in InFlightCalls : \A b \in InFlightCalls :
        a # b => verify[a].port # verify[b].port

\* ------------------------------------------------------------------------
\* C38: in a pass of the tick loop, an up or down key switches to manual
\* mode and moves the selection by at most one row of the table shown,
\* the selected row staying within the table before and after the pass
\* re-sorts it; a pass that ends in manual mode leaves the recommendation
\* unchanged; Esc switches to automatic mode and clears the selection.
\* ------------------------------------------------------------------------
\* the row of the table shown that carries the selection, counted from 1;
\* the first row when nothing is selected
SelectedRow(sel, shown) ==
    LET rows == {k \in 1..Len(shown) : shown[k] = sel}
    IN  IF rows = {} THEN 1 ELSE CHOOSE k \in rows : \A j \in rows : k <= j
Keys == {get_key(ch) : ch \in Typed}
NavigatesBy(key) ==
    /\ key \in {"up", "down"} =>
        /\ manual_mode'
        /\ cached_snapshots # <<>> =>
            /\ selected_config' \in Range(cached_snapshots)
            /\ Abs(SelectedRow(selected_config', cached_snapshots)
                   - SelectedRow(selected_config, cached_snapshots)) <= 1
            /\ selected_config' \in Range(cached_snapshots')
            /\ SelectedRow(selected_config', cached_snapshots')
                   \in 1..Len(cached_snapshots')
    /\ manual_mode' => recommended_config' = recommended_config
    /\ key = "esc" => ~manual_mode' /\ selected_config' = NoConfig
C38_ManualNavigation ==
    [][nranks' # nranks =>
        \A key \in Keys : KeyHandled(key) => NavigatesBy(key)]_vars

\* the selection has been moved down the table, in manual mode, with a
\* recommendation made before
C38_Witness ==
    /\ manual_mode
    /\ selected_config # NoConfig
    /\ recommended_config # NoConfig
    /\ SelectedRow(selected_config, cached_snapshots) > 2

\* ---------------------------------------------------------------------
\* start_monitor taken up when verify_all_configs has returned about
\* MAX_MONITORED verified configs, all with the same real delay and so in
\* the order of the file: the cut of monitored_configs, then the monitor.
\* ---------------------------------------------------------------------
MaxBeyond == 1
ManyNames(n) == [k \in 1..n |-> "c" \o ToString(k)]
\* the loops that deliver samples: those of the first and the last
\* monitored config
TopProbed == {monitored_configs[1], monitored_configs[Len(monitored_configs)]}

InitTop ==
    /\ NoMonitor
    /\ NoVerify
    /\ monitor = "verified"
    /\ lines = <<>>
    /\ \E n \in (MaxMonitored - 1)..(MaxMonitored + MaxBeyond) :
        configs = ManyNames(n)
    /\ raw_link = [c \in Range(configs) |-> c]
    /\ xray_available = TRUE
    /\ reachable = Range(configs)
    /\ concurrency = Phase1Concurrency
    /\ tasks = [c \in Range(configs) |-> "done"]
    /\ sem = 0
    /\ \E lat \in VerifyLats :
        /\ results = [c \in Range(configs) |-> [valid |-> TRUE, lat |-> lat]]
        /\ valid_results = [k \in 1..Len(configs) |->
                              [config |-> configs[k], lat |-> lat]]
    /\ calls = [c \in Range(configs) |-> 1]
    /\ fault = [c \in Range(configs) |-> "none"]

NextTop ==
    \/ Phase2Starts
    \/ LoopRuns(MaxStartWork, TopProbed)
    \/ ProbeVerified(MaxStartWork)
    \/ ClockRuns(MaxStartWork, {SleepSeconds})
    \/ TickStep(MaxStartWork)

SpecTop == InitTop /\ [][NextTop]_vars

\* ------------------------------------------------------------------------
\* C39: once monitoring has started the monitored set is the first
\* MAX_MONITORED verified configs in Phase-1 order and never changes; the
\* recommendation is None or a monitored config; in automatic mode it is
\* not None once a tick has run, and it never goes back to None.
\* ------------------------------------------------------------------------
Monitoring == monitor = "ticking"
FirstVerified(n) ==
    {verified_configs[k] : k \in 1..Min(n, Len(verified_configs))}
C39_RecommendationMembership ==
    /\ [](Monitoring =>
            /\ Monitored = FirstVerified(MaxMonitored)
            /\ Cardinality(Monitored) <= MaxMonitored
            /\ recommended_config \in Monitored \cup {NoConfig}
            /\ (nranks > 0 /\ ~manual_mode) => recommended_config # NoConfig)
    /\ [][/\ Monitoring => Monitored' = Monitored
          /\ recommended_config # NoConfig =>
                recommended_config' # NoConfig]_vars

\* more configs were verified than are monitored, and a tick has
\* recommended one of the monitored
C39_Witness ==
    /\ Monitoring
    /\ Len(verified_configs) > MaxMonitored
    /\ Cardinality(Monitored) = MaxMonitored
    /\ nranks > 0
    /\ recommended_config \in Monitored

\* ---------------------------------------------------------------------
\* The probe loops when there are more targets than slots, taken up when
\* the first SemCapacity tasks have entered verify_config: the later tasks
\* wait in sem.acquire() for the slots the earlier ones release.  The
\* monitor keeps running.
\* ---------------------------------------------------------------------
NWaitLoops == 6
MaxWaitWork == 10
SlotHolders == First(SemCapacity)

InitWait ==
    /\ now = 0
    /\ maxlen = [t \in First(NWaitLoops) |-> WinCap]
    /\ history = [t \in First(NWaitLoops) |-> <<Ok(PrepopDefault)>>]
    /\ smoothed_score = [t \in First(NWaitLoops) |-> None]
    /\ last_success_time = [t \in First(NWaitLoops) |-> 0]
    /\ current_snapshots = <<>>
    /\ arrivals = history
    /\ nranks = 0
    /\ pc = [t \in First(NWaitLoops) |->
                IF t \in SlotHolders THEN "probing" ELSE "created"]
    /\ sem_value = 0
    /\ waiters = <<>>
    /\ probe_started_at = [t \in First(NWaitLoops) |->
                              IF t \in SlotHolders THEN 0 ELSE -1]
    /\ last_outcome = [t \in First(NWaitLoops) |-> "none"]
    /\ raw_link = [t \in First(NWaitLoops) |-> t]
    /\ running = TRUE
    /\ monitor = "ticking"
    /\ cancel_requested = {}
    /\ manual_mode = FALSE
    /\ selected_config = NoConfig
    /\ trigger_rescan = FALSE
    /\ recommended_config = NoConfig
    /\ cached_snapshots = SubSeq(ConfigNames, 1, NWaitLoops)
    /\ LoadOver

NextWait ==
    \/ LoopRuns(MaxWaitWork, Monitored)
    \/ LoopGranted(Monitored)
    \/ ProbeEnd(MaxWaitWork)
    \/ ClockRuns(MaxWaitWork, {SleepSeconds})

SpecWait == InitWait /\ [][NextWait]_vars

\* ------------------------------------------------------------------------
\* C37: while the monitor runs, no probe loop starves, with more targets
\* than slots.  Stated over finite runs: every loop always has a step
\* enabled that brings it nearer to its next sample (its own, or the end of
\* a probe or the grant ahead of it while it waits); no step moves a loop
\* further from its next sample; and a slot is never taken past a waiting
\* loop, the waiters being served in the order of their arrival.
\* ------------------------------------------------------------------------
MonitorRuns == running /\ monitor = "ticking"
PlaceIn(t, q) == CHOOSE k \in 1..Len(q) : q[k] = t
CreatedBefore(t, p) == Cardinality({u \in Before(t) : p[u] = "created"})
\* an upper bound of the steps t is away from holding a slot with its
\* sample about to be recorded
Dist(t, p, q) ==
    LET n == Cardinality(DOMAIN p)
    IN  CASE p[t] = "probing" -> 1
          [] p[t] = "waiting" -> 1 + PlaceIn(t, q)
          [] p[t] = "ready" -> 2 + n
          [] p[t] = "created" -> 2 + n + CreatedBefore(t, p)
          [] OTHER -> 3 + (2 * n)
Records(t) == Len(arrivals'[raw_link[t]]) > Len(arrivals[raw_link[t]])
AProbeCanEnd(t) == \E s \in Samples(MonLats) : ENABLED ProbeReturn(t, s)
Helped(t) ==
    CASE pc[t] = "probing" -> AProbeCanEnd(t)
      [] pc[t] = "waiting" ->
            IF sem_value > 0 THEN ENABLED Grant(Head(waiters))
            ELSE \E u \in Monitored : pc[u] = "probing" /\ AProbeCanEnd(u)
      [] pc[t] = "ready" -> ENABLED Iterate(t)
      [] pc[t] = "created" ->
            \E u \in Monitored : pc[u] = "created" /\ ENABLED Iterate(u)
      [] OTHER -> ENABLED Elapse(SleepSeconds)
TakesSlot(t) == pc'[t] = "probing" /\ pc[t] # "probing"
====
